---- MODULE Spec2Model ----
(***************************************************************************)
(* Model of the playback engine of morse-torch (AudioService): the         *)
(* transport state machine, the self-scheduling emission chain             *)
(* (playSequence), the progress sampler and the seek computation; and of   *)
(* the transmission scheduler (FlashlightService).  The two services share *)
(* no state: Spec runs the playback engine, SpecFlash the scheduler.       *)
(* SpecInput runs the calls that check their arguments, with the file      *)
(* generateAudioFile builds; SpecMorse applies the functions of            *)
(* MorseConverterService to every argument within the bounds.              *)
(*                                                                         *)
(* Time is measured in half milliseconds, so that duration / speed is an   *)
(* integer for the speeds 0.5, 1.0 and 2.0.  Speeds are written in tenths  *)
(* (5 = 0.5, 10 = 1.0, 20 = 2.0), positions as PosNum / PosDen.            *)
(*                                                                         *)
(* Stored times are kept relative to the present instant: Date.now() is 0, *)
(* and a Tick moves every stored time that can still be read one step into *)
(* the past.  A timer holds the time left until it fires.  A stored time   *)
(* the code overwrites before it can read it again (startTime always,      *)
(* pausedTime while not paused, currentItemStartTime while stopped) is     *)
(* left alone by Tick.                                                     *)
(***************************************************************************)
EXTENDS Integers, Sequences, FiniteSets, TLC

(* ---------------------------------------------------------------- bounds *)
MaxCalls == 3
MaxSess == 2
MaxChains == 2
MaxPause == 1
PosDen == 4
MaxMorse == 5
MaxText == 4

(* ------------------------------------------------------------ MorseTiming *)
Dit == [type |-> "dit", duration |-> 1]
Dah == [type |-> "dah", duration |-> 3]
SymbolGap == [type |-> "symbolGap", duration |-> 1]

\* the event sequences handed to playMorse; <<>> is the rejected empty one
Sequences == { <<>>, <<Dit>>, <<Dit, SymbolGap, Dah>> }

\* speeds in tenths: 3 and 25 are out of range, 20 is valid
Speeds == {3, 20, 25}

\* seek positions as numerators over PosDen; -1 and PosDen + 1 are out of range
Positions == (0 .. PosDen) \cup {-1, PosDen + 1}

NoProgress == <<-1, 1>>

(* ------------------------------------------------------------------ state *)
VARIABLES
  playbackState,        \* [isPlaying, isPaused, currentIndex, startTime, pausedTime, totalDuration]
  accumulatedDuration,
  currentItemStartTime,
  progressInterval,     \* handle of the sampler interval, 0 = null
  playbackTimeout,      \* handle of the next-step timer, 0 = null
  sound,                \* handle of the current sound, 0 = null
  onProgressCallback,   \* session whose onProgress is registered, 0 = null
  onCompleteCallback,   \* session whose onComplete is registered, 0 = null
  currentTimings,
  currentSpeed,
  chains,               \* in-flight playSequence invocations, by id
  intervals,            \* ids of the setInterval timers that exist
  inits,                \* playMorse calls awaiting initializeAudio()
  nSess,                \* number of accepted playMorse calls so far
  completed,            \* completed[s] = number of onComplete calls of session s
  stopped,              \* sessions whose callbacks were cleared by stop/release
  lastCall,             \* the API call whose effect on the transport came last
  op,                   \* the last step and what it emitted
  calls,                \* number of API calls so far
  reported,             \* the last value passed to the registered onProgress
  isTransmitting,       \* FlashlightService.isTransmitting
  transmissionTimeouts, \* FlashlightService.transmissionTimeouts: timer handles
  torchEnabled,         \* FlashlightService.torchEnabled
  onTorchChangeCallback,\* TRUE if a torch callback is registered, FALSE = null
  permits,              \* transmitMorse calls awaiting hasPermission()
  walks,                \* pending timers of executeTimingSequence, by handle
  appState,             \* App: appState.current
  input,                \* the argument handed to MorseConverterService
  output                \* what MorseConverterService returned for it

vars == << playbackState, accumulatedDuration, currentItemStartTime,
           progressInterval, playbackTimeout, sound, onProgressCallback,
           onCompleteCallback, currentTimings, currentSpeed, chains, intervals,
           inits, nSess, completed, stopped, lastCall, op, calls, reported,
           isTransmitting, transmissionTimeouts, torchEnabled,
           onTorchChangeCallback, permits, walks, appState, input,
           output >>

\* the whole state as one record, so that a handler's statements compose
Snapshot ==
  [ playbackState |-> playbackState,
    accumulatedDuration |-> accumulatedDuration,
    currentItemStartTime |-> currentItemStartTime,
    progressInterval |-> progressInterval,
    playbackTimeout |-> playbackTimeout,
    sound |-> sound,
    onProgressCallback |-> onProgressCallback,
    onCompleteCallback |-> onCompleteCallback,
    currentTimings |-> currentTimings,
    currentSpeed |-> currentSpeed,
    chains |-> chains,
    intervals |-> intervals,
    inits |-> inits,
    nSess |-> nSess,
    completed |-> completed,
    stopped |-> stopped,
    lastCall |-> lastCall,
    op |-> op,
    calls |-> calls,
    reported |-> reported,
    isTransmitting |-> isTransmitting,
    transmissionTimeouts |-> transmissionTimeouts,
    torchEnabled |-> torchEnabled,
    onTorchChangeCallback |-> onTorchChangeCallback,
    permits |-> permits,
    walks |-> walks,
    appState |-> appState,
    input |-> input,
    output |-> output ]

Commit(s) ==
  /\ playbackState' = s.playbackState
  /\ accumulatedDuration' = s.accumulatedDuration
  /\ currentItemStartTime' = s.currentItemStartTime
  /\ progressInterval' = s.progressInterval
  /\ playbackTimeout' = s.playbackTimeout
  /\ sound' = s.sound
  /\ onProgressCallback' = s.onProgressCallback
  /\ onCompleteCallback' = s.onCompleteCallback
  /\ currentTimings' = s.currentTimings
  /\ currentSpeed' = s.currentSpeed
  /\ chains' = s.chains
  /\ intervals' = s.intervals
  /\ inits' = s.inits
  /\ nSess' = s.nSess
  /\ completed' = s.completed
  /\ stopped' = s.stopped
  /\ lastCall' = s.lastCall
  /\ op' = s.op
  /\ calls' = s.calls
  /\ reported' = s.reported
  /\ isTransmitting' = s.isTransmitting
  /\ transmissionTimeouts' = s.transmissionTimeouts
  /\ torchEnabled' = s.torchEnabled
  /\ onTorchChangeCallback' = s.onTorchChangeCallback
  /\ permits' = s.permits
  /\ walks' = s.walks
  /\ appState' = s.appState
  /\ input' = s.input
  /\ output' = s.output

StoppedState ==
  [ isPlaying |-> FALSE, isPaused |-> FALSE, currentIndex |-> 0,
    startTime |-> 0, pausedTime |-> 0, totalDuration |-> 0 ]

\* what a step emitted: the event it began (-1 = none), the progress value it
\* passed to onProgress, whether a tone started, the session whose onComplete
\* ran, the message of the error the step threw ("" = none), the transmission
\* whose onError ran, the values the step passed to the torch callback, the
\* file the step built, and the arguments and the write outcome it was given
Op(name) ==
  [ name |-> name, began |-> -1, prog |-> NoProgress, tone |-> FALSE,
    complete |-> 0, cb |-> 0, err |-> "", onError |-> 0, torch |-> <<>>,
    wav |-> [header |-> <<>>, samples |-> <<>>],
    arg |-> [timings |-> <<>>, speed |-> 0,
             write |-> [rejected |-> FALSE, isError |-> FALSE, message |-> <<>>]] ]

\* the strings handed to morseToTiming, the time units they are compiled with,
\* and the texts handed to textToMorse and validateText: "e" is lower case,
\* "#" and "%" have no code
Strings(alphabet, n) == UNION { [1 .. k -> alphabet] : k \in 0 .. n }
MorseStrings == Strings({".", "-", " ", "/"}, MaxMorse)
TimeUnits == {1, 2, 120}
Texts == Strings({"e", "A", " ", "#", "%"}, MaxText)

NoInput == [kind |-> "none", chars |-> <<>>, timeUnit |-> 120]
ConverterInputs ==
  { [kind |-> "morse", chars |-> m, timeUnit |-> u] : m \in MorseStrings, u \in TimeUnits }
    \cup { [kind |-> "text", chars |-> x, timeUnit |-> 120] : x \in Texts }

NoOutput == [morse |-> <<>>, timings |-> <<>>, isValid |-> TRUE, unsupportedChars |-> <<>>]

\* the services as constructed
Constructed ==
  /\ playbackState = StoppedState
  /\ accumulatedDuration = 0
  /\ currentItemStartTime = 0
  /\ progressInterval = 0
  /\ playbackTimeout = 0
  /\ sound = 0
  /\ onProgressCallback = 0
  /\ onCompleteCallback = 0
  /\ currentTimings = <<>>
  /\ currentSpeed = 10
  /\ chains = <<>>
  /\ intervals = {}
  /\ inits = {}
  /\ nSess = 0
  /\ completed = <<>>
  /\ stopped = {}
  /\ lastCall = "none"
  /\ op = Op("init")
  /\ calls = 0
  /\ reported = NoProgress
  /\ isTransmitting = FALSE
  /\ transmissionTimeouts = <<>>
  /\ torchEnabled = FALSE
  /\ onTorchChangeCallback = FALSE
  /\ permits = {}
  /\ walks = <<>>
  /\ appState = "active"
  /\ output = NoOutput

Init == Constructed /\ input = NoInput

(* ---------------------------------------------------------- pure helpers *)
\* Date.now()
Now == 0

Put(ch, c, r) == [i \in (DOMAIN ch) \cup {c} |-> IF i = c THEN r ELSE ch[i]]
Drop(ch, c) == [i \in (DOMAIN ch) \ {c} |-> ch[i]]

\* timing.duration / speed, in half milliseconds
Adjusted(timing, speed) == (20 * timing.duration) \div speed

RECURSIVE SumAdjusted(_, _, _)
SumAdjusted(timings, speed, n) ==
  IF n = 0 THEN 0
  ELSE SumAdjusted(timings, speed, n - 1) + Adjusted(timings[n], speed)

calculateTotalDuration(timings, speed) == SumAdjusted(timings, speed, Len(timings))

\* faulty variant of ValidSpeed: the ends of the range are rejected
ValidSpeed_Open(speed) == ~(speed <= 5 \/ speed >= 20)

ValidSpeed(speed) == ~(speed < 5 \/ speed > 20)

\* the checks at the head of playMorse: the message thrown, "" if none
playMorseError(timings, speed) ==
  IF Len(timings) = 0 THEN "No timings provided"
  ELSE IF ~ValidSpeed(speed) THEN "Speed must be between 0.5 and 2.0"
  ELSE ""

\* the checks at the head of generateAudioFile
generateAudioFileError(timings, speed) ==
  IF Len(timings) = 0 THEN "No timings provided"
  ELSE IF speed < 5 \/ speed > 20 THEN "Speed must be between 0.5 and 2.0"
  ELSE ""

(* ------------------------------------------------ strings of characters *)
\* a string whose characters are inspected is a sequence of one-character
\* strings
UpperCase == <<"A", "B", "C", "D", "E", "F", "G", "H", "I", "J", "K", "L", "M", "N",
              "O", "P", "Q", "R", "S", "T", "U", "V", "W", "X", "Y", "Z">>
LowerCase == <<"a", "b", "c", "d", "e", "f", "g", "h", "i", "j", "k", "l", "m", "n",
              "o", "p", "q", "r", "s", "t", "u", "v", "w", "x", "y", "z">>

Recase(ch, from, to) ==
  IF \E i \in DOMAIN from : from[i] = ch
  THEN to[CHOOSE i \in DOMAIN from : from[i] = ch]
  ELSE ch

\* String.prototype.toLowerCase and toUpperCase
toLowerCase(str) == [i \in 1 .. Len(str) |-> Recase(str[i], UpperCase, LowerCase)]
toUpperCase(str) == [i \in 1 .. Len(str) |-> Recase(str[i], LowerCase, UpperCase)]

\* String.prototype.includes
includes(str, sub) ==
  \E i \in 1 .. (Len(str) - Len(sub) + 1) : SubSeq(str, i, i + Len(sub) - 1) = sub

(* ------------------------------------------------- generateAudioFile *)
\* faulty variant of isStorageError: the message is matched as it is written
isStorageError_CaseSensitive(message) ==
  \/ includes(message, <<"s", "t", "o", "r", "a", "g", "e">>)
  \/ includes(message, <<"s", "p", "a", "c", "e">>)
  \/ includes(message, <<"d", "i", "s", "k", " ", "f", "u", "l", "l">>)

\* the test of the catch block on error.message
isStorageError(message) ==
  \/ includes(toLowerCase(message), <<"s", "t", "o", "r", "a", "g", "e">>)
  \/ includes(toLowerCase(message), <<"s", "p", "a", "c", "e">>)
  \/ includes(toLowerCase(message), <<"d", "i", "s", "k", " ", "f", "u", "l", "l">>)

\* the catch block of generateAudioFile: the message of the error it throws for
\* the value that was caught; only an Error has its message examined
generateAudioFileCatch(error) ==
  IF error.isError /\ isStorageError(error.message)
  THEN "Insufficient storage space available"
  ELSE "Audio file generation failed"

\* what FileSystem.writeAsStringAsync does with the file: it resolves, or it
\* rejects with an Error carrying a message, or with a value that is no Error
Resolved == [rejected |-> FALSE, isError |-> FALSE, message |-> <<>>]
RejectedWith(message) == [rejected |-> TRUE, isError |-> TRUE, message |-> message]
RejectedNoError == [rejected |-> TRUE, isError |-> FALSE, message |-> <<>>]

StorageFull == <<"S", "t", "o", "r", "a", "g", "e", " ", "f", "u", "l", "l">>

WriteMessages ==
  { StorageFull,
    <<"N", "o", " ", "S", "P", "A", "C", "E", " ", "l", "e", "f", "t">>,
    <<"D", "i", "s", "k", " ", "F", "u", "l", "l">>,
    <<"d", "i", "s", "k", " ", "i", "s", " ", "f", "u", "l", "l">>,
    <<"E", "A", "C", "C", "E", "S", " ", "d", "e", "n", "i", "e", "d">>,
    <<>> }

WriteOutcomes == {Resolved, RejectedNoError} \cup {RejectedWith(m) : m \in WriteMessages}

SampleRate == 44100

\* Math.floor((duration / 1000) * sampleRate), the duration in half milliseconds
numSamplesOf(duration) == (duration * SampleRate) \div 2000

\* DataView.setUint16 and setUint32, little-endian
U16LE(n) == << n % 256, (n \div 256) % 256 >>
U32LE(n) ==
  << n % 256, (n \div 256) % 256, (n \div 65536) % 256, (n \div 16777216) % 256 >>

\* faulty variant of createWavHeader: the RIFF chunk size counts the whole file
createWavHeader_WholeFile(numSamples, sampleRate) ==
  <<82, 73, 70, 70>> \o U32LE(44 + numSamples * 2) \o <<87, 65, 86, 69>>
    \o <<102, 109, 116, 32>> \o U32LE(16) \o U16LE(1) \o U16LE(1)
    \o U32LE(sampleRate) \o U32LE(sampleRate * 2) \o U16LE(2) \o U16LE(16)
    \o <<100, 97, 116, 97>> \o U32LE(numSamples * 2)

\* the 44 bytes of the header; writeString stores the character codes
createWavHeader(numSamples, sampleRate) ==
  LET numChannels == 1
      bitsPerSample == 16
      byteRate == sampleRate * numChannels * (bitsPerSample \div 8)
      blockAlign == numChannels * (bitsPerSample \div 8)
      dataSize == numSamples * numChannels * (bitsPerSample \div 8)
  IN <<82, 73, 70, 70>> \o U32LE(36 + dataSize) \o <<87, 65, 86, 69>>
       \o <<102, 109, 116, 32>> \o U32LE(16) \o U16LE(1) \o U16LE(numChannels)
       \o U32LE(sampleRate) \o U32LE(byteRate) \o U16LE(blockAlign)
       \o U16LE(bitsPerSample)
       \o <<100, 97, 116, 97>> \o U32LE(dataSize)

\* the loop over the events: the samples written after the first n events,
\* "tone" by the sine branch and "zero" by the silence branch, never more than
\* totalSamples of them
RECURSIVE writeSamples(_, _, _, _)
writeSamples(timings, speed, n, totalSamples) ==
  IF n = 0 THEN <<>>
  ELSE LET before == writeSamples(timings, speed, n - 1, totalSamples)
           numSamples == numSamplesOf(Adjusted(timings[n], speed))
           count == IF numSamples < totalSamples - Len(before)
                    THEN numSamples ELSE totalSamples - Len(before)
       IN before \o [i \in 1 .. count |->
                       IF timings[n].type = "dit" \/ timings[n].type = "dah"
                       THEN "tone" ELSE "zero"]

\* faulty variant of synthesize: the buffer ends where the loop stopped writing
synthesize_NoPadding(timings, speed) ==
  writeSamples(timings, speed, Len(timings),
               numSamplesOf(calculateTotalDuration(timings, speed)))

\* the Int16Array of totalSamples samples, zero where the loop wrote nothing
synthesize(timings, speed) ==
  LET totalSamples == numSamplesOf(calculateTotalDuration(timings, speed))
      written == writeSamples(timings, speed, Len(timings), totalSamples)
  IN written \o [i \in 1 .. (totalSamples - Len(written)) |-> "zero"]

\* the file before it is encoded: the header and, two bytes each, the samples
NoWav == [header |-> <<>>, samples |-> <<>>]
wavData(timings, speed) ==
  [ header |-> createWavHeader(Len(synthesize(timings, speed)), SampleRate),
    samples |-> synthesize(timings, speed) ]

\* wavData.length = wavHeader.length + samples.length * 2
byteLength(wav) == Len(wav.header) + Len(wav.samples) * 2

IsTone(timing) == timing.type = "dit" \/ timing.type = "dah"

\* faulty variant of Clamp01: the fraction is reported without clamping
Clamp01_NoClamp(num, den) == <<num, den>>

\* Math.min(Math.max(num / den, 0), 1) as a fraction
Clamp01(num, den) ==
  IF num < 0 THEN <<0, 1>> ELSE IF num > den THEN <<1, 1>> ELSE <<num, den>>

Min(a, b) == IF a < b THEN a ELSE b

\* this.currentTimings[currentIndex]?.duration / this.currentSpeed || 0
CurrentItemDuration(s) ==
  IF s.playbackState.currentIndex + 1 \in DOMAIN s.currentTimings
  THEN Adjusted(s.currentTimings[s.playbackState.currentIndex + 1], s.currentSpeed)
  ELSE 0

\* the progress fraction both the sampler and getProgress compute
ProgressOf(s, elapsed) ==
  IF s.playbackState.totalDuration > 0
  THEN Clamp01(s.accumulatedDuration + Min(elapsed, CurrentItemDuration(s)),
               s.playbackState.totalDuration)
  ELSE Clamp01(0, 1)

getProgressOf(s) ==
  IF ~s.playbackState.isPlaying THEN <<0, 1>>
  ELSE ProgressOf(s, IF s.playbackState.isPaused
                     THEN s.playbackState.pausedTime - s.currentItemStartTime
                     ELSE Now - s.currentItemStartTime)

getProgress == getProgressOf(Snapshot)
isPlaying == playbackState.isPlaying /\ ~playbackState.isPaused
isPaused == playbackState.isPaused

(* ------------------------------------------------------- handler bodies *)
\* a handle no pending timer, sound or chain is using
NewId(s) ==
  CHOOSE i \in 1 .. (Cardinality(DOMAIN s.chains) + 3) :
    /\ i \notin DOMAIN s.chains /\ i # s.playbackTimeout /\ i # s.sound
    /\ \A j \in 1 .. (i - 1) : j \in DOMAIN s.chains \/ j = s.playbackTimeout \/ j = s.sound

\* clearTimeout(this.playbackTimeout): removes the timer if it is still pending
ClearTimeout(s) ==
  IF s.playbackTimeout # 0 /\ s.playbackTimeout \in DOMAIN s.chains
     /\ s.chains[s.playbackTimeout].stage = "timeout"
  THEN [s EXCEPT !.chains = Drop(s.chains, s.playbackTimeout), !.playbackTimeout = 0]
  ELSE [s EXCEPT !.playbackTimeout = 0]

\* faulty variant of cleanup: the sampler interval is not cleared
cleanup_KeepsInterval(s) ==
  LET s2 == ClearTimeout(s)
  IN [s2 EXCEPT !.sound = 0,
                !.playbackState = StoppedState,
                !.accumulatedDuration = 0,
                !.currentItemStartTime = 0,
                !.onProgressCallback = 0,
                !.onCompleteCallback = 0,
                !.reported = NoProgress]

\* faulty variant of cleanup: the callbacks stay registered
cleanup_KeepsCallbacks(s) ==
  LET s1 == [s EXCEPT !.intervals = s.intervals \ {s.progressInterval},
                      !.progressInterval = 0]
      s2 == ClearTimeout(s1)
  IN [s2 EXCEPT !.sound = 0,
                !.playbackState = StoppedState,
                !.accumulatedDuration = 0,
                !.currentItemStartTime = 0,
                !.reported = NoProgress]

cleanup(s) ==
  LET s1 == [s EXCEPT !.intervals = s.intervals \ {s.progressInterval},
                      !.progressInterval = 0]
      s2 == ClearTimeout(s1)
  IN [s2 EXCEPT !.sound = 0,
                !.playbackState = StoppedState,
                !.accumulatedDuration = 0,
                !.currentItemStartTime = 0,
                !.onProgressCallback = 0,
                !.onCompleteCallback = 0,
                !.reported = NoProgress]

pausePlayback(s) ==
  IF s.playbackState.isPlaying /\ ~s.playbackState.isPaused
  THEN ClearTimeout([s EXCEPT !.playbackState.isPaused = TRUE,
                              !.playbackState.pausedTime = Now])
  ELSE s

\* faulty variant of playSequence: the end of the sequence does not run cleanup()
playSequence_NoCleanup(s, c, sess, timings, speed, index) ==
  IF ~s.playbackState.isPlaying \/ s.playbackState.isPaused
  THEN [s EXCEPT !.chains = Drop(s.chains, c)]
  ELSE IF index >= Len(timings)
  THEN [s EXCEPT
          !.op.prog = IF s.onProgressCallback # 0 THEN <<1, 1>> ELSE @,
          !.reported = IF s.onProgressCallback # 0 THEN <<1, 1>> ELSE @,
          !.op.cb = s.onProgressCallback,
          !.op.complete = s.onCompleteCallback,
          !.completed = IF s.onCompleteCallback # 0
                        THEN [@ EXCEPT ![s.onCompleteCallback] = @ + 1]
                        ELSE @,
          !.chains = Drop(s.chains, c)]
  ELSE LET timing == timings[index + 1]
           tone == IsTone(timing)
       IN [s EXCEPT
             !.playbackState.currentIndex = index,
             !.currentItemStartTime = Now,
             !.op.began = index,
             !.chains = Put(s.chains, c,
                 [ sess |-> sess, timings |-> timings, speed |-> speed, index |-> index,
                   stage |-> IF tone THEN "create" ELSE "wait",
                   tone |-> tone,
                   left |-> Adjusted(timing, speed) ])]

\* playSequence(timings, speed, index), run by chain c, up to its first await;
\* sess names the session that created the chain (it is not read by the code)
playSequence(s, c, sess, timings, speed, index) ==
  IF ~s.playbackState.isPlaying \/ s.playbackState.isPaused
  THEN [s EXCEPT !.chains = Drop(s.chains, c)]
  ELSE IF index >= Len(timings)
  THEN LET s1 == [s EXCEPT
                    !.op.prog = IF s.onProgressCallback # 0 THEN <<1, 1>> ELSE @,
                    !.reported = IF s.onProgressCallback # 0 THEN <<1, 1>> ELSE @,
                    !.op.cb = s.onProgressCallback,
                    !.op.complete = s.onCompleteCallback,
                    !.completed = IF s.onCompleteCallback # 0
                                  THEN [@ EXCEPT ![s.onCompleteCallback] = @ + 1]
                                  ELSE @,
                    !.chains = Drop(s.chains, c)]
       IN cleanup(s1)
  ELSE LET timing == timings[index + 1]
           tone == IsTone(timing)
       IN [s EXCEPT
             !.playbackState.currentIndex = index,
             !.currentItemStartTime = Now,
             !.op.began = index,
             !.chains = Put(s.chains, c,
                 [ sess |-> sess, timings |-> timings, speed |-> speed, index |-> index,
                   stage |-> IF tone THEN "create" ELSE "wait",
                   tone |-> tone,
                   left |-> Adjusted(timing, speed) ])]

\* the rest of playSequence after the await: accumulate and schedule the next step
scheduleNext(s, c) ==
  LET ch == s.chains[c]
  IN [s EXCEPT
        !.accumulatedDuration = @ + Adjusted(ch.timings[ch.index + 1], ch.speed),
        !.playbackTimeout = c,
        !.chains[c].stage = "timeout"]

\* faulty variant of SeekWalk: the comparison with the target is strict
RECURSIVE SeekWalk_Strict(_, _, _, _)
SeekWalk_Strict(s, position, i, accumulatedTime) ==
  IF i >= Len(s.currentTimings) THEN <<0, accumulatedTime>>
  ELSE LET timingDuration == Adjusted(s.currentTimings[i + 1], s.currentSpeed)
       IN IF PosDen * (accumulatedTime + timingDuration)
               > position * s.playbackState.totalDuration
          THEN <<i, accumulatedTime>>
          ELSE SeekWalk_Strict(s, position, i + 1, accumulatedTime + timingDuration)

\* the walk of seekTo over currentTimings: <<targetIndex, accumulatedTime>>
RECURSIVE SeekWalk(_, _, _, _)
SeekWalk(s, position, i, accumulatedTime) ==
  IF i >= Len(s.currentTimings) THEN <<0, accumulatedTime>>
  ELSE LET timingDuration == Adjusted(s.currentTimings[i + 1], s.currentSpeed)
       IN \* accumulatedTime + timingDuration >= position * totalDuration
          IF PosDen * (accumulatedTime + timingDuration)
               >= position * s.playbackState.totalDuration
          THEN <<i, accumulatedTime>>
          ELSE SeekWalk(s, position, i + 1, accumulatedTime + timingDuration)

seekTo(s, position) ==
  LET wasPlaying == s.playbackState.isPlaying /\ ~s.playbackState.isPaused
      s1 == pausePlayback(s)
      target == SeekWalk(s1, position, 0, 0)
      s2 == [s1 EXCEPT !.playbackState.currentIndex = target[1],
                       !.accumulatedDuration = target[2],
                       !.currentItemStartTime = Now]
  IN IF wasPlaying
     THEN playSequence([s2 EXCEPT !.playbackState.isPaused = FALSE],
                       NewId(s2), s2.onCompleteCallback, s2.currentTimings,
                       s2.currentSpeed, target[1])
     ELSE s2

resumePlayback(s) ==
  IF s.playbackState.isPlaying /\ s.playbackState.isPaused
  THEN playSequence([s EXCEPT !.playbackState.isPaused = FALSE,
                              !.currentItemStartTime = Now],
                    NewId(s), s.onCompleteCallback, s.currentTimings, s.currentSpeed,
                    s.playbackState.currentIndex)
  ELSE s

\* one firing of the setInterval callback of startProgressTracking
sampleProgress(s) ==
  IF s.playbackState.isPlaying /\ ~s.playbackState.isPaused
  THEN IF s.onProgressCallback # 0
       THEN [s EXCEPT !.op.prog = ProgressOf(s, Now - s.currentItemStartTime),
                      !.reported = ProgressOf(s, Now - s.currentItemStartTime),
                      !.op.cb = s.onProgressCallback]
       ELSE s
  ELSE s

\* faulty variant of startSession: the accumulated elapsed time is not reset
startSession_KeepsElapsed(s, i) ==
  LET s1 == [s EXCEPT
               !.currentTimings = i.timings,
               !.currentSpeed = i.speed,
               !.onProgressCallback = i.sess,
               !.onCompleteCallback = i.sess,
               !.reported = NoProgress,
               !.playbackState =
                  [ isPlaying |-> TRUE, isPaused |-> FALSE, currentIndex |-> 0,
                    startTime |-> Now, pausedTime |-> 0,
                    totalDuration |-> calculateTotalDuration(i.timings, i.speed) ],
               !.currentItemStartTime = 0,
               !.progressInterval = i.sess,
               !.intervals = @ \cup {i.sess}]
  IN playSequence(s1, NewId(s1), i.sess, i.timings, i.speed, 0)

\* playMorse after initializeAudio() has resolved, up to the first await of playSequence
startSession(s, i) ==
  LET s1 == [s EXCEPT
               !.currentTimings = i.timings,
               !.currentSpeed = i.speed,
               !.onProgressCallback = i.sess,
               !.onCompleteCallback = i.sess,
               !.reported = NoProgress,
               !.playbackState =
                  [ isPlaying |-> TRUE, isPaused |-> FALSE, currentIndex |-> 0,
                    startTime |-> Now, pausedTime |-> 0,
                    totalDuration |-> calculateTotalDuration(i.timings, i.speed) ],
               !.accumulatedDuration = 0,
               !.currentItemStartTime = 0,
               !.progressInterval = i.sess,
               !.intervals = @ \cup {i.sess}]
  IN playSequence(s1, NewId(s1), i.sess, i.timings, i.speed, 0)

\* the passage of one time step: timers come closer, stored times recede
tick(s) ==
  [s EXCEPT
     !.chains = [c \in DOMAIN s.chains |-> [s.chains[c] EXCEPT !.left = @ - 1]],
     !.currentItemStartTime = IF s.playbackState.isPlaying THEN @ - 1 ELSE @,
     !.playbackState.pausedTime =
        IF s.playbackState.isPlaying /\ s.playbackState.isPaused THEN @ - 1 ELSE @]

(* ---------------------------------------------------------------- actions *)
Call(name) == [Snapshot EXCEPT !.calls = @ + 1, !.op = Op(name)]
Step(name) == [Snapshot EXCEPT !.op = Op(name)]

\* room for one more playSequence chain (a bound of the model)
Room == Cardinality(DOMAIN chains) + Cardinality(inits) < MaxChains

PlayMorse(timings, speed) ==
  /\ calls < MaxCalls /\ nSess < MaxSess /\ Room
  /\ playMorseError(timings, speed) = ""
  /\ Commit([Call("playMorse") EXCEPT
               !.nSess = @ + 1,
               !.completed = Append(@, 0),
               !.inits = @ \cup {[timings |-> timings, speed |-> speed, sess |-> nSess + 1]}])

\* faulty variant of PlayMorseRejected: the arguments are checked inside the
\* try, so the catch tears the engine down
PlayMorseRejected_TearsDown(timings, speed) ==
  /\ calls < MaxCalls
  /\ playMorseError(timings, speed) # ""
  /\ Commit(cleanup([Call("playMorseRejected") EXCEPT
                       !.op.err = playMorseError(timings, speed)]))

PlayMorseRejected(timings, speed) ==
  /\ calls < MaxCalls
  /\ playMorseError(timings, speed) # ""
  /\ Commit([Call("playMorseRejected") EXCEPT
               !.op.err = playMorseError(timings, speed)])

InitDone(i) ==
  /\ i \in inits
  /\ Commit(startSession([Step("initDone") EXCEPT !.inits = @ \ {i},
                                                  !.lastCall = "playMorse"], i))

\* initializeAudio() rejects: the catch of playMorse runs cleanup()
InitFail(i) ==
  /\ i \in inits
  /\ Commit(cleanup([Step("initFail") EXCEPT !.inits = @ \ {i},
                                             !.lastCall = "playMorseFailed",
                                             !.op.err = "Audio playback failed"]))

\* Audio.Sound.createAsync resolves: the tone starts, this.sound is set, wait(duration)
CreateDone(c) ==
  /\ c \in DOMAIN chains /\ chains[c].stage = "create"
  /\ Commit([Step("createDone") EXCEPT
               !.op.tone = TRUE,
               !.sound = c,
               !.chains[c].stage = "wait"])

\* faulty variant of CreateFail: the error leaves playBeep and the session is
\* torn down
CreateFail_TearsDown(c) ==
  /\ c \in DOMAIN chains /\ chains[c].stage = "create"
  /\ Commit(cleanup([Step("createFail") EXCEPT
                       !.chains = Drop(@, c),
                       !.op.err = "Audio playback failed"]))

\* createAsync rejects: playBeep swallows the error and playSequence goes on
CreateFail(c) ==
  /\ c \in DOMAIN chains /\ chains[c].stage = "create"
  /\ Commit(scheduleNext(Step("createFail"), c))

\* the timer of wait(duration) fires
WaitDone(c) ==
  /\ c \in DOMAIN chains /\ chains[c].stage = "wait" /\ chains[c].left = 0
  /\ IF chains[c].tone
     THEN Commit([Step("waitDone") EXCEPT !.chains[c].stage = "release"])
     ELSE Commit(scheduleNext(Step("waitDone"), c))

\* sound.stopAsync() and sound.unloadAsync() have resolved
ReleaseDone(c) ==
  /\ c \in DOMAIN chains /\ chains[c].stage = "release"
  /\ Commit(scheduleNext([Step("releaseDone") EXCEPT !.sound = 0], c))

\* the setTimeout(..., 0) callback: playSequence(timings, speed, index + 1)
NextStep(c) ==
  /\ c \in DOMAIN chains /\ chains[c].stage = "timeout"
  /\ Commit(playSequence(Step("nextStep"), c, chains[c].sess, chains[c].timings,
                         chains[c].speed, chains[c].index + 1))

Sample(id) ==
  /\ id \in intervals
  /\ Commit(sampleProgress(Step("sample")))

PausePlayback ==
  /\ calls < MaxCalls
  /\ Commit([pausePlayback(Call("pausePlayback")) EXCEPT
               !.lastCall = IF isPlaying THEN "pausePlayback" ELSE @])

ResumePlayback ==
  /\ calls < MaxCalls /\ Room
  /\ Commit([resumePlayback(Call("resumePlayback")) EXCEPT
               !.lastCall = IF playbackState.isPlaying /\ isPaused
                            THEN "resumePlayback" ELSE @])

\* faulty variant of seekToError: the ends of the range are rejected
seekToError_Open(position) ==
  IF position <= 0 \/ position >= PosDen
  THEN "Position must be between 0 and 1" ELSE ""

\* the check at the head of seekTo: the message thrown, "" if none
seekToError(position) ==
  IF position < 0 \/ position > PosDen
  THEN "Position must be between 0 and 1" ELSE ""

SeekTo(position) ==
  /\ calls < MaxCalls /\ Room
  /\ seekToError(position) = ""
  /\ Commit([seekTo(Call("seekTo"), position) EXCEPT !.lastCall = "seekTo"])

SeekToRejected(position) ==
  /\ calls < MaxCalls
  /\ seekToError(position) # ""
  /\ Commit([Call("seekToRejected") EXCEPT !.op.err = seekToError(position)])

Stop(name) ==
  /\ calls < MaxCalls
  /\ Commit([cleanup(Call(name)) EXCEPT
               !.stopped = IF onCompleteCallback # 0 THEN @ \cup {onCompleteCallback} ELSE @,
               !.lastCall = name])

StopPlayback == Stop("stopPlayback")

\* generateAudioFile: the input checks, then the synthesis and the write, which
\* resolves or rejects; it reads and writes no field of the transport.  A call
\* that fails the checks never reaches the write
GenerateAudioFile(timings, speed, write) ==
  /\ calls < MaxCalls
  /\ generateAudioFileError(timings, speed) # "" => write = Resolved
  /\ Commit([Call("generateAudioFile") EXCEPT
               !.op.err = IF generateAudioFileError(timings, speed) # ""
                          THEN generateAudioFileError(timings, speed)
                          ELSE IF write.rejected THEN generateAudioFileCatch(write)
                          ELSE "",
               !.op.wav = IF generateAudioFileError(timings, speed) # ""
                          THEN NoWav
                          ELSE wavData(timings, speed),
               !.op.arg = [timings |-> timings, speed |-> speed, write |-> write]])

ReleaseResources == Stop("releaseResources")

\* time passes only when no timer is due and no asynchronous completion is
\* pending, and while something still depends on it
Tick ==
  /\ inits = {}
  /\ \A c \in DOMAIN chains : chains[c].stage = "wait" /\ chains[c].left > 0
  /\ \/ DOMAIN chains # {}
     \/ /\ playbackState.isPlaying /\ playbackState.isPaused
        /\ playbackState.pausedTime > -MaxPause
  /\ Commit(tick(Step("tick")))

Next ==
  \/ \E t \in Sequences, sp \in Speeds : PlayMorse(t, sp)
  \/ \E t \in Sequences, sp \in Speeds : PlayMorseRejected(t, sp)
  \/ \E i \in inits : InitDone(i)
  \/ \E i \in inits : InitFail(i)
  \/ \E c \in DOMAIN chains : CreateDone(c)
  \/ \E c \in DOMAIN chains : CreateFail(c)
  \/ \E c \in DOMAIN chains : WaitDone(c)
  \/ \E c \in DOMAIN chains : ReleaseDone(c)
  \/ \E c \in DOMAIN chains : NextStep(c)
  \/ \E id \in intervals : Sample(id)
  \/ PausePlayback
  \/ ResumePlayback
  \/ \E p \in Positions : SeekTo(p)
  \/ \E p \in Positions : SeekToRejected(p)
  \/ StopPlayback
  \/ ReleaseResources
  \/ Tick

Spec == Init /\ [][Next]_vars

\* uninterrupted playback: playMorse is called only while the engine is idle,
\* and pausePlayback, resumePlayback, seekTo and stopPlayback are never called
LivePlay(timings, speed) ==
  /\ ~playbackState.isPlaying /\ inits = {} /\ DOMAIN chains = {}
  /\ PlayMorse(timings, speed)

InitSettles == \E i \in inits : InitDone(i) \/ InitFail(i)
CreateSettles == \E c \in DOMAIN chains : CreateDone(c) \/ CreateFail(c)
TimerFires == \E c \in DOMAIN chains : WaitDone(c) \/ ReleaseDone(c) \/ NextStep(c)

NextLive ==
  \/ \E t \in Sequences, sp \in Speeds : LivePlay(t, sp)
  \/ InitSettles
  \/ CreateSettles
  \/ TimerFires
  \/ \E id \in intervals : Sample(id)
  \/ Tick

\* the event loop runs every callback that is due, and time passes
SpecLive ==
  /\ Init /\ [][NextLive]_vars
  /\ WF_vars(InitSettles) /\ WF_vars(CreateSettles) /\ WF_vars(TimerFires)
  /\ WF_vars(Tick)

\* the speeds given to playMorse and generateAudioFile, in tenths: the two of
\* the tests (0.3, 2.5), the ends of the range and their neighbours, and 1.0
InputSpeeds == {3, 4, 5, 10, 20, 21, 25}

\* the calls that check their arguments, over the whole range of arguments
NextInput ==
  \/ \E t \in Sequences, sp \in InputSpeeds : PlayMorse(t, sp)
  \/ \E t \in Sequences, sp \in InputSpeeds : PlayMorseRejected(t, sp)
  \/ \E t \in Sequences, sp \in InputSpeeds, w \in WriteOutcomes :
        GenerateAudioFile(t, sp, w)

SpecInput == Init /\ [][NextInput]_vars

(* --------------------------------------------------- FlashlightService *)
\* the buffer added to every delay of the transmission, in ms
BufferMs == 10

\* the message of the error a torch callback throws
TorchFailure == "torch callback failed"

\* this.onTorchChangeCallback?.(enabled)
callTorch(s, enabled) ==
  IF s.onTorchChangeCallback THEN [s EXCEPT !.op.torch = Append(@, enabled)] ELSE s

turnOnFlashlight(s) == callTorch([s EXCEPT !.torchEnabled = TRUE], TRUE)

turnOffFlashlight(s) == callTorch([s EXCEPT !.torchEnabled = FALSE], FALSE)

\* a call of the torch callback throws: only a registered callback can
Throws(s, thrown) == s.onTorchChangeCallback /\ thrown

\* the handle setTimeout returns: one that transmissionTimeouts does not hold
NewTimer(s) == Len(s.transmissionTimeouts) + 1

\* the catch of scheduleNext; thrown tells whether its turnOffFlashlight throws
scheduleNextCatch(s, w, thrown) ==
  LET s1 == turnOffFlashlight([s EXCEPT !.isTransmitting = FALSE])
  IN IF Throws(s, thrown)
     THEN [s1 EXCEPT !.op.err = TorchFailure]
     ELSE [s1 EXCEPT !.op.onError = w.tx]

\* faulty variant of flashScheduleNext: the next step is scheduled without the
\* buffer
flashScheduleNext_NoBuffer(s, w, thrown1, thrown2) ==
  IF ~s.isTransmitting \/ w.index >= Len(w.timings)
  THEN IF Throws(s, thrown1)
       THEN scheduleNextCatch(turnOffFlashlight(s), w, thrown2)
       ELSE [turnOffFlashlight(s) EXCEPT !.isTransmitting = FALSE,
                                         !.op.complete = w.tx]
  ELSE LET timing == w.timings[w.index + 1]
           s1 == IF IsTone(timing) THEN turnOnFlashlight(s) ELSE turnOffFlashlight(s)
       IN IF Throws(s, thrown1)
          THEN scheduleNextCatch(s1, w, thrown2)
          ELSE [s1 EXCEPT
                  !.op.began = w.index,
                  !.walks = Put(@, NewTimer(s1),
                                [ tx |-> w.tx, timings |-> w.timings, index |-> w.index,
                                  left |-> timing.duration ]),
                  !.transmissionTimeouts = Append(@, NewTimer(s1))]

\* scheduleNext of executeTimingSequence for the closure w = [tx, timings,
\* index]; thrown1 tells whether the torch call of the step throws
flashScheduleNext(s, w, thrown1, thrown2) ==
  IF ~s.isTransmitting \/ w.index >= Len(w.timings)
  THEN IF Throws(s, thrown1)
       THEN scheduleNextCatch(turnOffFlashlight(s), w, thrown2)
       ELSE [turnOffFlashlight(s) EXCEPT !.isTransmitting = FALSE,
                                         !.op.complete = w.tx]
  ELSE LET timing == w.timings[w.index + 1]
           s1 == IF IsTone(timing) THEN turnOnFlashlight(s) ELSE turnOffFlashlight(s)
       IN IF Throws(s, thrown1)
          THEN scheduleNextCatch(s1, w, thrown2)
          ELSE [s1 EXCEPT
                  !.op.began = w.index,
                  !.walks = Put(@, NewTimer(s1),
                                [ tx |-> w.tx, timings |-> w.timings, index |-> w.index,
                                  left |-> timing.duration + BufferMs ]),
                  !.transmissionTimeouts = Append(@, NewTimer(s1))]

\* transmitMorse up to its await of hasPermission(); tx names the call
transmitMorse(s, timings, tx) ==
  IF s.isTransmitting
  THEN [s EXCEPT !.isTransmitting = FALSE,
                 !.op.err = "Transmission already in progress",
                 !.op.onError = tx]
  ELSE [s EXCEPT !.permits = @ \cup {[tx |-> tx, timings |-> timings]}]

\* faulty variant of transmitStart: the transmission is marked active before
\* the sequence is looked at
transmitStart_MarksActive(s, p, thrown1, thrown2) ==
  IF Len(p.timings) = 0
  THEN [s EXCEPT !.isTransmitting = TRUE, !.op.complete = p.tx]
  ELSE LET s1 == flashScheduleNext([s EXCEPT !.isTransmitting = TRUE],
                                   [tx |-> p.tx, timings |-> p.timings, index |-> 0],
                                   thrown1, thrown2)
       IN IF s1.op.err # ""
          THEN [s1 EXCEPT !.isTransmitting = FALSE, !.op.onError = p.tx]
          ELSE s1

\* transmitMorse after hasPermission() has resolved (it resolves to true)
transmitStart(s, p, thrown1, thrown2) ==
  IF Len(p.timings) = 0
  THEN [s EXCEPT !.op.complete = p.tx]
  ELSE LET s1 == flashScheduleNext([s EXCEPT !.isTransmitting = TRUE],
                                   [tx |-> p.tx, timings |-> p.timings, index |-> 0],
                                   thrown1, thrown2)
       IN IF s1.op.err # ""
          THEN [s1 EXCEPT !.isTransmitting = FALSE, !.op.onError = p.tx]
          ELSE s1

stopTransmission(s, thrown) ==
  IF ~s.isTransmitting THEN s
  ELSE LET cleared == {s.transmissionTimeouts[k] : k \in DOMAIN s.transmissionTimeouts}
           s1 == turnOffFlashlight(
                   [s EXCEPT !.isTransmitting = FALSE,
                             !.walks = [id \in (DOMAIN @) \ cleared |-> @[id]],
                             !.transmissionTimeouts = <<>>])
       IN IF Throws(s, thrown) THEN [s1 EXCEPT !.op.err = TorchFailure] ELSE s1

\* FlashlightService.releaseResources
flashReleaseResources(s, thrown) ==
  LET s1 == stopTransmission(s, thrown)
  IN IF s1.op.err # "" THEN s1 ELSE [s1 EXCEPT !.onTorchChangeCallback = FALSE]

SetTorchChangeCallback ==
  /\ calls < MaxCalls
  /\ Commit([Call("setTorchChangeCallback") EXCEPT !.onTorchChangeCallback = TRUE])

TransmitMorse(timings) ==
  /\ calls < MaxCalls
  /\ Commit(transmitMorse(Call("transmitMorse"), timings, calls + 1))

\* the continuation of transmitMorse runs before any timer
PermissionDone(p, thrown1, thrown2) ==
  /\ p \in permits
  /\ Commit(transmitStart([Step("permissionDone") EXCEPT !.permits = @ \ {p}],
                          p, thrown1, thrown2))

\* the setTimeout callback of scheduleNext: currentIndex++; scheduleNext()
TimerFired(id, thrown1, thrown2) ==
  /\ permits = {}
  /\ id \in DOMAIN walks /\ walks[id].left = 0
  /\ Commit(flashScheduleNext([Step("timerFired") EXCEPT !.walks = Drop(@, id)],
                              [walks[id] EXCEPT !.index = @ + 1], thrown1, thrown2))

StopTransmission(thrown) ==
  /\ calls < MaxCalls
  /\ Commit(stopTransmission(Call("stopTransmission"), thrown))

FlashReleaseResources(thrown) ==
  /\ calls < MaxCalls
  /\ Commit(flashReleaseResources(Call("flashReleaseResources"), thrown))

\* the least time left on a pending timer
MinLeft ==
  CHOOSE m \in {walks[id].left : id \in DOMAIN walks} :
    \A id \in DOMAIN walks : m <= walks[id].left

\* time passes up to the next timer that is due
FlashTick ==
  /\ permits = {} /\ DOMAIN walks # {}
  /\ \A id \in DOMAIN walks : walks[id].left > 0
  /\ Commit([Step("flashTick") EXCEPT
               !.walks = [id \in DOMAIN @ |-> [@[id] EXCEPT !.left = @ - MinLeft]]])

NextFlash ==
  \/ SetTorchChangeCallback
  \/ \E t \in Sequences : TransmitMorse(t)
  \/ \E p \in permits, thrown1, thrown2 \in BOOLEAN : PermissionDone(p, thrown1, thrown2)
  \/ \E id \in DOMAIN walks, thrown1, thrown2 \in BOOLEAN : TimerFired(id, thrown1, thrown2)
  \/ \E thrown \in BOOLEAN : StopTransmission(thrown)
  \/ \E thrown \in BOOLEAN : FlashReleaseResources(thrown)
  \/ FlashTick

SpecFlash == Init /\ [][NextFlash]_vars

\* transmissions that are neither stopped nor fail: the torch callback never
\* throws, and every continuation and timer that is due runs
NextFlashLive ==
  \/ SetTorchChangeCallback
  \/ \E t \in Sequences : TransmitMorse(t)
  \/ \E p \in permits : PermissionDone(p, FALSE, FALSE)
  \/ \E id \in DOMAIN walks : TimerFired(id, FALSE, FALSE)
  \/ FlashTick

SpecFlashLive ==
  /\ Init /\ [][NextFlashLive]_vars
  /\ WF_vars(\E p \in permits : PermissionDone(p, FALSE, FALSE))
  /\ WF_vars(\E id \in DOMAIN walks : TimerFired(id, FALSE, FALSE))
  /\ WF_vars(FlashTick)

(* ------------------------------------------------ MorseConverterService *)
\* the lookup table, in the order of the source
MORSE_CODE_MAP ==
  << [char |-> "A", code |-> <<".", "-">>],
     [char |-> "B", code |-> <<"-", ".", ".", ".">>],
     [char |-> "C", code |-> <<"-", ".", "-", ".">>],
     [char |-> "D", code |-> <<"-", ".", ".">>],
     [char |-> "E", code |-> <<".">>],
     [char |-> "F", code |-> <<".", ".", "-", ".">>],
     [char |-> "G", code |-> <<"-", "-", ".">>],
     [char |-> "H", code |-> <<".", ".", ".", ".">>],
     [char |-> "I", code |-> <<".", ".">>],
     [char |-> "J", code |-> <<".", "-", "-", "-">>],
     [char |-> "K", code |-> <<"-", ".", "-">>],
     [char |-> "L", code |-> <<".", "-", ".", ".">>],
     [char |-> "M", code |-> <<"-", "-">>],
     [char |-> "N", code |-> <<"-", ".">>],
     [char |-> "O", code |-> <<"-", "-", "-">>],
     [char |-> "P", code |-> <<".", "-", "-", ".">>],
     [char |-> "Q", code |-> <<"-", "-", ".", "-">>],
     [char |-> "R", code |-> <<".", "-", ".">>],
     [char |-> "S", code |-> <<".", ".", ".">>],
     [char |-> "T", code |-> <<"-">>],
     [char |-> "U", code |-> <<".", ".", "-">>],
     [char |-> "V", code |-> <<".", ".", ".", "-">>],
     [char |-> "W", code |-> <<".", "-", "-">>],
     [char |-> "X", code |-> <<"-", ".", ".", "-">>],
     [char |-> "Y", code |-> <<"-", ".", "-", "-">>],
     [char |-> "Z", code |-> <<"-", "-", ".", ".">>],
     [char |-> "0", code |-> <<"-", "-", "-", "-", "-">>],
     [char |-> "1", code |-> <<".", "-", "-", "-", "-">>],
     [char |-> "2", code |-> <<".", ".", "-", "-", "-">>],
     [char |-> "3", code |-> <<".", ".", ".", "-", "-">>],
     [char |-> "4", code |-> <<".", ".", ".", ".", "-">>],
     [char |-> "5", code |-> <<".", ".", ".", ".", ".">>],
     [char |-> "6", code |-> <<"-", ".", ".", ".", ".">>],
     [char |-> "7", code |-> <<"-", "-", ".", ".", ".">>],
     [char |-> "8", code |-> <<"-", "-", "-", ".", ".">>],
     [char |-> "9", code |-> <<"-", "-", "-", "-", ".">>],
     [char |-> ".", code |-> <<".", "-", ".", "-", ".", "-">>],
     [char |-> ",", code |-> <<"-", "-", ".", ".", "-", "-">>],
     [char |-> "?", code |-> <<".", ".", "-", "-", ".", ".">>],
     [char |-> "'", code |-> <<".", "-", "-", "-", "-", ".">>],
     [char |-> "!", code |-> <<"-", ".", "-", ".", "-", "-">>],
     [char |-> "/", code |-> <<"-", ".", ".", "-", ".">>],
     [char |-> "(", code |-> <<"-", ".", "-", "-", ".">>],
     [char |-> ")", code |-> <<"-", ".", "-", "-", ".", "-">>],
     [char |-> "&", code |-> <<".", "-", ".", ".", ".">>],
     [char |-> ":", code |-> <<"-", "-", "-", ".", ".", ".">>],
     [char |-> ";", code |-> <<"-", ".", "-", ".", "-", ".">>],
     [char |-> "=", code |-> <<"-", ".", ".", ".", "-">>],
     [char |-> "+", code |-> <<".", "-", ".", "-", ".">>],
     [char |-> "-", code |-> <<"-", ".", ".", ".", ".", "-">>],
     [char |-> "_", code |-> <<".", ".", "-", "-", ".", "-">>],
     [char |-> "\"", code |-> <<".", "-", ".", ".", "-", ".">>],
     [char |-> "$", code |-> <<".", ".", ".", "-", ".", ".", "-">>],
     [char |-> "@", code |-> <<".", "-", "-", ".", "-", ".">>],
     [char |-> " ", code |-> <<"/">>] >>

\* MORSE_CODE_MAP[char] || ''
codeOf(char) ==
  IF \E i \in DOMAIN MORSE_CODE_MAP : MORSE_CODE_MAP[i].char = char
  THEN MORSE_CODE_MAP[CHOOSE i \in DOMAIN MORSE_CODE_MAP : MORSE_CODE_MAP[i].char = char].code
  ELSE <<>>

\* !str || str.trim().length === 0, for strings whose only white space is " "
isBlank(str) == \A i \in DOMAIN str : str[i] = " "

NonEmpty(str) == Len(str) > 0

\* String.prototype.split(' '): the pieces between the spaces, empty ones kept
RECURSIVE split(_)
split(str) ==
  IF \E i \in DOMAIN str : str[i] = " "
  THEN LET i == CHOOSE j \in DOMAIN str : str[j] = " " /\ \A k \in 1 .. (j - 1) : str[k] # " "
       IN <<SubSeq(str, 1, i - 1)>> \o split(SubSeq(str, i + 1, Len(str)))
  ELSE <<str>>

\* Array.prototype.join
RECURSIVE join(_, _)
join(parts, sep) ==
  IF Len(parts) = 0 THEN <<>>
  ELSE IF Len(parts) = 1 THEN parts[1]
  ELSE parts[1] \o sep \o join(Tail(parts), sep)

\* faulty variant of wordToMorse: a character without a code leaves a "?"
wordToMorse_Placeholder(word) ==
  join([i \in 1 .. Len(word) |->
          IF NonEmpty(codeOf(word[i])) THEN codeOf(word[i]) ELSE <<"?">>], <<" ">>)

\* the callback mapped over the words: the codes of the letters that have one
wordToMorse(word) ==
  join(SelectSeq([i \in 1 .. Len(word) |-> codeOf(word[i])], NonEmpty), <<" ">>)

\* faulty variant of textToMorse: the words left empty are joined as well
textToMorse_KeepsEmptyWords(text) ==
  IF isBlank(text) THEN <<>>
  ELSE LET words == split(toUpperCase(text))
       IN join([i \in 1 .. Len(words) |-> wordToMorse(words[i])], <<" ", "/", " ">>)

textToMorse(text) ==
  IF isBlank(text) THEN <<>>
  ELSE LET words == split(toUpperCase(text))
           morseWords == SelectSeq([i \in 1 .. Len(words) |-> wordToMorse(words[i])],
                                   NonEmpty)
       IN join(morseWords, <<" ", "/", " ">>)

\* faulty variant of timingConfig: the word gap keeps its default length
timingConfig_DefaultWordGap(timeUnit) ==
  [ timeUnit |-> timeUnit, ditDuration |-> timeUnit, dahDuration |-> timeUnit * 3,
    symbolGap |-> timeUnit, letterGap |-> timeUnit * 3, wordGap |-> 840,
    frequency |-> 600 ]

\* the config morseToTiming builds from its time unit
timingConfig(timeUnit) ==
  [ timeUnit |-> timeUnit, ditDuration |-> timeUnit, dahDuration |-> timeUnit * 3,
    symbolGap |-> timeUnit, letterGap |-> timeUnit * 3, wordGap |-> timeUnit * 7,
    frequency |-> 600 ]

\* morse[i], i counted from 0; "" stands for undefined
charAt(morse, i) == IF i >= 0 /\ i < Len(morse) THEN morse[i + 1] ELSE ""

\* faulty variant of compileChar: a space that follows '/' counts as a letter gap
compileChar_NoLookBehind(morse, i, config) ==
  LET char == charAt(morse, i)
      symbolNext == i + 1 < Len(morse) /\ charAt(morse, i + 1) # " "
                      /\ charAt(morse, i + 1) # "/"
      gap == IF symbolNext
             THEN <<[type |-> "symbolGap", duration |-> config.symbolGap]>> ELSE <<>>
  IN IF char = "." THEN <<[type |-> "dit", duration |-> config.ditDuration]>> \o gap
     ELSE IF char = "-" THEN <<[type |-> "dah", duration |-> config.dahDuration]>> \o gap
     ELSE IF char = " "
     THEN IF i + 1 < Len(morse) /\ charAt(morse, i + 1) = "/" THEN <<>>
          ELSE <<[type |-> "letterGap", duration |-> config.letterGap]>>
     ELSE IF char = "/" THEN <<[type |-> "wordGap", duration |-> config.wordGap]>>
     ELSE <<>>

\* faulty variant of compileChar: a space that precedes '/' counts as a letter gap
compileChar_NoLookAhead(morse, i, config) ==
  LET char == charAt(morse, i)
      symbolNext == i + 1 < Len(morse) /\ charAt(morse, i + 1) # " "
                      /\ charAt(morse, i + 1) # "/"
      gap == IF symbolNext
             THEN <<[type |-> "symbolGap", duration |-> config.symbolGap]>> ELSE <<>>
  IN IF char = "." THEN <<[type |-> "dit", duration |-> config.ditDuration]>> \o gap
     ELSE IF char = "-" THEN <<[type |-> "dah", duration |-> config.dahDuration]>> \o gap
     ELSE IF char = " "
     THEN IF i > 0 /\ charAt(morse, i - 1) = "/" THEN <<>>
          ELSE <<[type |-> "letterGap", duration |-> config.letterGap]>>
     ELSE IF char = "/" THEN <<[type |-> "wordGap", duration |-> config.wordGap]>>
     ELSE <<>>

\* one iteration of the loop of morseToTiming: the events pushed for morse[i]
compileChar(morse, i, config) ==
  LET char == charAt(morse, i)
      symbolNext == i + 1 < Len(morse) /\ charAt(morse, i + 1) # " "
                      /\ charAt(morse, i + 1) # "/"
      gap == IF symbolNext
             THEN <<[type |-> "symbolGap", duration |-> config.symbolGap]>> ELSE <<>>
  IN IF char = "." THEN <<[type |-> "dit", duration |-> config.ditDuration]>> \o gap
     ELSE IF char = "-" THEN <<[type |-> "dah", duration |-> config.dahDuration]>> \o gap
     ELSE IF char = " "
     THEN IF i + 1 < Len(morse) /\ charAt(morse, i + 1) = "/" THEN <<>>
          ELSE IF i > 0 /\ charAt(morse, i - 1) = "/" THEN <<>>
          ELSE <<[type |-> "letterGap", duration |-> config.letterGap]>>
     ELSE IF char = "/" THEN <<[type |-> "wordGap", duration |-> config.wordGap]>>
     ELSE <<>>

\* the while loop of morseToTiming from index i on
RECURSIVE compileFrom(_, _, _, _)
compileFrom(morse, i, config, timings) ==
  IF i < Len(morse)
  THEN compileFrom(morse, i + 1, config, timings \o compileChar(morse, i, config))
  ELSE timings

morseToTiming(morse, timeUnit) ==
  IF isBlank(morse) THEN <<>>
  ELSE compileFrom(morse, 0, timingConfig(timeUnit), <<>>)

\* faulty variant of validateChar: a character is listed every time it occurs
validateChar_Repeats(unsupportedChars, char) ==
  IF char # " " /\ ~NonEmpty(codeOf(char))
  THEN Append(unsupportedChars, char)
  ELSE unsupportedChars

\* one iteration of the loop of validateText
validateChar(unsupportedChars, char) ==
  IF char # " " /\ ~NonEmpty(codeOf(char))
  THEN IF ~(\E k \in DOMAIN unsupportedChars : unsupportedChars[k] = char)
       THEN Append(unsupportedChars, char)
       ELSE unsupportedChars
  ELSE unsupportedChars

RECURSIVE validateFrom(_, _, _)
validateFrom(upperText, i, unsupportedChars) ==
  IF i <= Len(upperText)
  THEN validateFrom(upperText, i + 1, validateChar(unsupportedChars, upperText[i]))
  ELSE unsupportedChars

validateText(text) ==
  LET unsupportedChars == validateFrom(toUpperCase(text), 1, <<>>)
  IN [isValid |-> Len(unsupportedChars) = 0, unsupportedChars |-> unsupportedChars]

\* the calls of the converter on the argument it was handed
TextToMorse ==
  /\ input.kind = "text" /\ op.name = "init"
  /\ Commit([Step("textToMorse") EXCEPT !.output.morse = textToMorse(input.chars)])

ValidateText ==
  /\ input.kind = "text" /\ op.name = "init"
  /\ Commit([Step("validateText") EXCEPT
               !.output.isValid = validateText(input.chars).isValid,
               !.output.unsupportedChars = validateText(input.chars).unsupportedChars])

MorseToTiming ==
  /\ input.kind = "morse" /\ op.name = "init"
  /\ Commit([Step("morseToTiming") EXCEPT
               !.output.timings = morseToTiming(input.chars, input.timeUnit)])

\* the rendering of a text is compiled
MorseToTimingOfText ==
  /\ op.name = "textToMorse"
  /\ Commit([Step("morseToTimingOfText") EXCEPT
               !.output.timings = morseToTiming(output.morse, input.timeUnit)])

NextMorse ==
  \/ TextToMorse
  \/ ValidateText
  \/ MorseToTiming
  \/ MorseToTimingOfText

\* the converter applied to every argument within the bounds
InitMorse == Constructed /\ input \in ConverterInputs

SpecMorse == InitMorse /\ [][NextMorse]_vars

(* -------------------------------------------------------------------- App *)
\* the values of AppState the listener is told of
AppStates == {"active", "inactive", "background"}

\* appState.current.match(/active/): "inactive" contains "active"
matchesActive(state) == state \in {"active", "inactive"}

\* nextAppState.match(/inactive|background/)
matchesInactiveOrBackground(state) == state \in {"inactive", "background"}

\* the listener of AppState 'change': AudioService.releaseResources(), then
\* FlashlightService.releaseResources(), then appState.current = nextAppState;
\* an exception of the torch callback leaves the listener before the assignment
handleAppStateChange(s, nextAppState, thrown) ==
  IF matchesActive(s.appState) /\ matchesInactiveOrBackground(nextAppState)
  THEN LET s1 == [cleanup(s) EXCEPT
                    !.stopped = IF s.onCompleteCallback # 0
                                THEN @ \cup {s.onCompleteCallback} ELSE @,
                    !.lastCall = "releaseResources"]
           s2 == flashReleaseResources(s1, thrown)
       IN IF s2.op.err # "" THEN s2 ELSE [s2 EXCEPT !.appState = nextAppState]
  ELSE [s EXCEPT !.appState = nextAppState]

AppStateChange(nextAppState, thrown) ==
  /\ nextAppState # appState
  /\ Commit(handleAppStateChange(Step("appStateChange"), nextAppState, thrown))

\* the application: a playback that is left to run, the transmission scheduler
\* and the changes of the application state
NextApp ==
  \/ \E t \in Sequences, sp \in Speeds : LivePlay(t, sp)
  \/ InitSettles
  \/ CreateSettles
  \/ TimerFires
  \/ Tick
  \/ SetTorchChangeCallback
  \/ \E t \in Sequences : TransmitMorse(t)
  \/ \E p \in permits, thrown1, thrown2 \in BOOLEAN : PermissionDone(p, thrown1, thrown2)
  \/ \E id \in DOMAIN walks, thrown1, thrown2 \in BOOLEAN : TimerFired(id, thrown1, thrown2)
  \/ FlashTick
  \/ \E a \in AppStates, thrown \in BOOLEAN : AppStateChange(a, thrown)

SpecApp == Init /\ [][NextApp]_vars

TypeOK ==
  /\ playbackState.currentIndex \in Nat
  /\ accumulatedDuration \in Nat
  /\ calls \in 0 .. MaxCalls
  /\ appState \in AppStates

(* ----------------------------------------------------- shared vocabulary *)
\* steps taken by timers and asynchronous completions of an emission chain
ChainSteps == {"createDone", "createFail", "waitDone", "releaseDone", "nextStep"}

\* steps that are not API calls and belong to the engine's own scheduling
EngineSteps == ChainSteps \cup {"sample"}

ApiCalls == {"playMorse", "playMorseRejected", "pausePlayback", "resumePlayback",
             "seekTo", "seekToRejected", "stopPlayback", "releaseResources"}

Cancelling == {"pausePlayback", "stopPlayback", "releaseResources"}

Playing == playbackState.isPlaying /\ ~playbackState.isPaused
Paused == playbackState.isPlaying /\ playbackState.isPaused
Stopped == ~playbackState.isPlaying

\* chains whose event is in flight, and chains whose next-step timer is pending
InFlight == {c \in DOMAIN chains : chains[c].stage \in {"create", "wait", "release"}}
PendingNext == {c \in DOMAIN chains : chains[c].stage = "timeout"}

(* ------------------------------------------------------------------ claims *)
\* C1: after pausePlayback(), stopPlayback() or releaseResources() has taken
\* effect and until the next playMorse/resumePlayback/seekTo, no step of the
\* cancelled emission changes currentIndex, the accumulated elapsed time or a
\* timer handle, starts a tone, or invokes the progress or completion callback.
C1_NoEffectAfterCancel ==
  [][ (lastCall \in Cancelling /\ lastCall' = lastCall /\ op'.name \in EngineSteps)
        => /\ playbackState'.currentIndex = playbackState.currentIndex
           /\ accumulatedDuration' = accumulatedDuration
           /\ playbackTimeout' = playbackTimeout
           /\ progressInterval' = progressInterval
           /\ ~op'.tone
           /\ op'.began = -1
           /\ op'.prog = NoProgress
           /\ op'.complete = 0 ]_vars

\* C2: at any time at most one emission chain is live (one in-flight event
\* wait or one pending next-step timer).
C2_OneLiveChain == Cardinality(DOMAIN chains) <= 1

\* C3: events are emitted in sequence order and one at a time: when a step
\* begins an event no other event is in flight, and an event begun by a
\* next-step timer is the successor of the engine's current event.
C3_InOrderOneAtATime ==
  [][ op'.began >= 0
        => /\ Cardinality(InFlight') = 1
           /\ op'.name = "nextStep" => op'.began = playbackState.currentIndex + 1 ]_vars

\* C4: pausePlayback() leaves currentIndex at the event that was in flight or
\* about to play, currentIndex is not advanced while Paused, and
\* resumePlayback() from Paused clears isPaused and begins that same event.
C4_PauseKeepsIndex ==
  [][ /\ (op'.name = "pausePlayback" /\ Playing)
           => playbackState'.currentIndex \in
                 {chains[c].index : c \in InFlight}
                   \cup {chains[c].index + 1 : c \in PendingNext}
      /\ (Paused /\ Paused' /\ op'.name \notin ApiCalls)
           => playbackState'.currentIndex = playbackState.currentIndex
      /\ (op'.name = "resumePlayback" /\ Paused)
           => ~isPaused' /\ op'.began = playbackState.currentIndex ]_vars

\* C5: pausePlayback() during playback makes isPaused() true, and while the
\* transport stays Paused no step of the engine invokes the progress callback
\* or changes getProgress() or the accumulated elapsed time.
C5_PauseHaltsProgress ==
  [][ /\ (op'.name = "pausePlayback" /\ Playing) => isPaused'
      /\ (Paused /\ Paused' /\ op'.name \notin ApiCalls)
           => /\ op'.prog = NoProgress
              /\ getProgress' = getProgress
              /\ accumulatedDuration' = accumulatedDuration ]_vars

\* sum of the adjusted durations of the first n events of the current session
Cumulative(n) == SumAdjusted(currentTimings, currentSpeed, n)

\* position / PosDen of the total duration is reached within the first n events
Reaches(n, position) == PosDen * Cumulative(n) >= position * playbackState.totalDuration

\* C6: in an active session seekTo(position) sets currentIndex to the least
\* index whose cumulative adjusted duration reaches position x totalDuration,
\* and the accumulated elapsed time to the sum of the durations before it.
C6_SeekTarget ==
  [][ \A position \in 0 .. PosDen :
        (playbackState.isPlaying /\ SeekTo(position))
          => \E i \in 0 .. (Len(currentTimings) - 1) :
               /\ Reaches(i + 1, position)
               /\ \A j \in 0 .. (i - 1) : ~Reaches(j + 1, position)
               /\ playbackState'.currentIndex = i
               /\ accumulatedDuration' = Cumulative(i) ]_vars

\* a seek in an active session has landed on the third event of Dit, SymbolGap, Dah
C6_Witness ==
  /\ op.name = "seekTo" /\ playbackState.isPlaying
  /\ playbackState.currentIndex = 2 /\ accumulatedDuration = 2

\* C7: seekTo keeps the transport: Playing stays Playing and emission begins
\* at the new index, Paused stays Paused and nothing is emitted before the
\* next call, Stopped stays Stopped.
C7_SeekPreservesTransport ==
  [][ /\ op'.name = "seekTo"
           => /\ Playing => (Playing' /\ op'.began = playbackState'.currentIndex)
              /\ Paused => (Paused' /\ op'.began = -1)
              /\ Stopped => Stopped'
      /\ (lastCall = "seekTo" /\ Paused /\ Paused' /\ op'.name \notin ApiCalls)
           => (op'.began = -1 /\ ~op'.tone) ]_vars

\* C8: uninterrupted playback reaches the end of the sequence; at that
\* point progress 1 has been reported, onComplete has been invoked, the
\* transport is Stopped and no timer of the engine is pending.
C8_RunsToCompletion ==
  playbackState.isPlaying
    ~> ( /\ op.name = "nextStep" /\ op.prog = <<1, 1>> /\ op.complete # 0
         /\ completed[op.complete] = 1
         /\ Stopped
         /\ DOMAIN chains = {} /\ intervals = {}
         /\ playbackTimeout = 0 /\ progressInterval = 0 )

\* the three-event session has run to its end
C8_Witness ==
  /\ op.name = "nextStep" /\ op.complete # 0 /\ Stopped
  /\ currentTimings = <<Dit, SymbolGap, Dah>>

\* C9: onComplete of a session is invoked at most once, never for a session
\* that was stopped, and exactly once at the step in which a chain of the
\* registered session reaches the end of its sequence while Playing.
C9_CompleteOnce ==
  [][ /\ \A s \in DOMAIN completed' :
            completed'[s] <= 1 /\ (s \in stopped' => completed'[s] = 0)
      /\ \A c \in DOMAIN chains :
            ( /\ NextStep(c) /\ Playing
              /\ chains[c].index + 1 >= Len(chains[c].timings)
              /\ onCompleteCallback = chains[c].sess )
              => /\ completed[chains[c].sess] = 0
                 /\ completed'[chains[c].sess] = 1
                 /\ op'.complete = chains[c].sess ]_vars

\* a session that was paused and resumed has completed
C9_Witness ==
  /\ lastCall = "resumePlayback" /\ op.name = "nextStep"
  /\ op.complete = 1 /\ completed[1] = 1

InUnit(fraction) == fraction[2] > 0 /\ 0 <= fraction[1] /\ fraction[1] <= fraction[2]

\* C10: every value passed to the progress callback and every value
\* getProgress() returns lies in [0, 1].
C10_ProgressInUnit ==
  /\ InUnit(getProgress)
  /\ op.prog # NoProgress => InUnit(op.prog)

\* the sampler reports a value strictly between 0 and 1 after a seek
C10_Witness ==
  /\ op.name = "sample" /\ lastCall = "seekTo"
  /\ 0 < op.prog[1] /\ op.prog[1] < op.prog[2]

\* a / b <= c / d for fractions with positive denominators
AtMost(a, b) == a[1] * b[2] <= b[1] * a[2]

\* C11: in uninterrupted playback every value passed to the progress callback
\* is at least the value passed before it, and the value passed in the step
\* that invokes onComplete is exactly 1.
C11_ProgressMonotone ==
  [][ /\ op'.prog # NoProgress => AtMost(reported, op'.prog)
      /\ op'.complete # 0 => op'.prog = <<1, 1>> ]_vars

\* C12: currentIndex lies in [0, n], n the length of the event sequence of
\* the current session.
C12_IndexInRange ==
  playbackState.currentIndex \in 0 .. Len(currentTimings)

\* C13: stopPlayback() and releaseResources(), from any state, leave the
\* engine Stopped: isPlaying() and isPaused() false, getProgress() 0,
\* currentIndex and accumulated elapsed time 0, both callbacks cleared; and a
\* further call would change nothing.
C13_StopResets ==
  [][ op'.name \in {"stopPlayback", "releaseResources"}
        => /\ ~isPlaying' /\ ~isPaused' /\ Stopped'
           /\ getProgress' = <<0, 1>>
           /\ playbackState'.currentIndex = 0
           /\ accumulatedDuration' = 0
           /\ onProgressCallback' = 0 /\ onCompleteCallback' = 0
           /\ cleanup(Snapshot)' = Snapshot' ]_vars

\* a session was stopped while an event of it was in flight
C13_Witness ==
  /\ op.name = "stopPlayback" /\ 1 \in stopped /\ InFlight # {}

\* sum of the unscaled durations of the first n events
RECURSIVE SumDurations(_, _)
SumDurations(timings, n) ==
  IF n = 0 THEN 0 ELSE SumDurations(timings, n - 1) + timings[n].duration

\* C14: a playMorse call with a non-empty sequence and a speed in [0.5, 2.0]
\* that starts while the transport is Stopped puts it in Playing (isPlaying()
\* true, isPaused() false) with currentIndex 0, accumulated elapsed time 0 and
\* totalDuration the sum over all events of duration / speed.
C14_PlayStarts ==
  [][ \A i \in inits :
        (Stopped /\ InitDone(i))
          => /\ Len(i.timings) > 0 /\ i.speed \in 5 .. 20
             /\ isPlaying' /\ ~isPaused'
             /\ playbackState'.currentIndex = 0
             /\ accumulatedDuration' = 0
             \* totalDuration (half ms) = sum of durations / (speed / 10)
             /\ i.speed * playbackState'.totalDuration
                  = 20 * SumDurations(i.timings, Len(i.timings)) ]_vars

\* a second session has started in an engine that had been stopped
C14_Witness ==
  /\ op.name = "initDone" /\ nSess = 2 /\ 1 \in stopped
  /\ isPlaying /\ accumulatedDuration = 0 /\ playbackState.totalDuration = 5

InvalidInput == {"No timings provided", "Speed must be between 0.5 and 2.0"}

\* C15: playMorse and generateAudioFile throw 'No timings provided' for an
\* empty sequence and 'Speed must be between 0.5 and 2.0' for a speed below 0.5
\* or above 2.0, and throw neither for a non-empty sequence with a speed in
\* [0.5, 2.0].
C15_InputChecks ==
  [][ \A t \in Sequences, sp \in InputSpeeds :
        (PlayMorse(t, sp) \/ PlayMorseRejected(t, sp)
           \/ (op'.arg.timings = t /\ op'.arg.speed = sp
                 /\ GenerateAudioFile(t, sp, op'.arg.write)))
          => /\ Len(t) = 0 => op'.err = "No timings provided"
             /\ (sp < 5 \/ sp > 20) => op'.err \in InvalidInput
             /\ (Len(t) > 0 /\ (sp < 5 \/ sp > 20))
                  => op'.err = "Speed must be between 0.5 and 2.0"
             /\ (Len(t) > 0 /\ sp >= 5 /\ sp <= 20) => op'.err \notin InvalidInput ]_vars

\* playMorse was accepted at speed 0.5 and at speed 2.0, and then a call was
\* rejected for its speed
C15_Witness ==
  /\ op.err = "Speed must be between 0.5 and 2.0"
  /\ \E i, j \in inits : i.speed = 5 /\ j.speed = 20

\* C16: seekTo(position) throws 'Position must be between 0 and 1' for every
\* position below 0 or above 1 and throws nothing for a position in [0, 1].
C16_SeekChecks ==
  [][ \A p \in Positions :
        (SeekTo(p) \/ SeekToRejected(p))
          => /\ (p < 0 \/ p > PosDen) => op'.err = "Position must be between 0 and 1"
             /\ (0 <= p /\ p <= PosDen) => op'.err = "" ]_vars

\* a seek was accepted during playback and the next one was rejected
C16_Witness ==
  /\ op.name = "seekToRejected" /\ op.err = "Position must be between 0 and 1"
  /\ lastCall = "seekTo" /\ Playing

\* a transmission is in progress: a step of its walk over the events is pending
Transmitting == DOMAIN walks # {}

\* C17: transmitMorse called while a transmission is in progress throws
\* 'Transmission already in progress', reports it to onError and starts no
\* second walk over events.
C17_RejectsSecondTransmission ==
  [][ \A t \in Sequences :
        (Transmitting /\ TransmitMorse(t))
          => /\ op'.err = "Transmission already in progress"
             /\ op'.onError = calls'
             /\ permits' = permits /\ walks' = walks ]_vars

\* C18: stopTransmission() or releaseResources() during a transmission leaves
\* isTransmittingNow() false, the torch off and no scheduled step pending, so
\* that nothing of that transmission happens afterwards; and a second
\* stopTransmission() would change nothing.
C18_StopCancels ==
  [][ (Transmitting /\ op'.name \in {"stopTransmission", "flashReleaseResources"})
        => /\ ~isTransmitting' /\ ~torchEnabled'
           /\ DOMAIN walks' = {} /\ transmissionTimeouts' = <<>>
           /\ \A thrown \in BOOLEAN :
                 stopTransmission(Snapshot, thrown)' = Snapshot' ]_vars

\* a step of a transmission in which the torch callback threw
StepFailed ==
  /\ op.name \in {"permissionDone", "timerFired"}
  /\ op.err = TorchFailure \/ op.onError # 0

\* C19: when a step of a transmission fails, no further step of its walk is
\* scheduled, the torch state is off, isTransmittingNow() is false, and the
\* error is reported through onError.
C19_FailureHalts ==
  [][ StepFailed'
        => /\ DOMAIN walks' \subseteq DOMAIN walks
           /\ transmissionTimeouts' = transmissionTimeouts
           /\ ~torchEnabled' /\ ~isTransmitting'
           /\ op'.onError # 0 ]_vars

\* C20: transmitMorse with an empty sequence, when no transmission is in
\* progress, invokes onComplete and changes nothing else: isTransmittingNow()
\* stays false, the torch is not toggled and no step is scheduled.
C20_EmptyCompletes ==
  [][ /\ (~Transmitting /\ ~isTransmitting /\ TransmitMorse(<<>>))
           => /\ permits' = permits \cup {[tx |-> calls', timings |-> <<>>]}
              /\ op'.err = "" /\ op'.torch = <<>>
              /\ << isTransmitting', torchEnabled', walks', transmissionTimeouts',
                    onTorchChangeCallback' >>
                  = << isTransmitting, torchEnabled, walks, transmissionTimeouts,
                       onTorchChangeCallback >>
      /\ \A p \in permits :
           (~Transmitting /\ ~isTransmitting /\ p.timings = <<>>
              /\ \E thrown1, thrown2 \in BOOLEAN : PermissionDone(p, thrown1, thrown2))
           => /\ op'.complete = p.tx /\ op'.err = "" /\ op'.onError = 0
              /\ op'.torch = <<>>
              /\ ~isTransmitting'
              /\ << torchEnabled', walks', transmissionTimeouts',
                    onTorchChangeCallback' >>
                  = << torchEnabled, walks, transmissionTimeouts,
                       onTorchChangeCallback >> ]_vars

\* the onComplete of an empty transmission has run with a torch callback
\* registered and the torch idle
C20_Witness ==
  /\ op.name = "permissionDone" /\ op.complete # 0
  /\ onTorchChangeCallback /\ ~isTransmitting /\ transmissionTimeouts = <<>>

\* the two characters are the same letter, in either case, or the same character
SameFolded(a, b) ==
  a = b \/ \E i \in DOMAIN UpperCase : {a, b} = {UpperCase[i], LowerCase[i]}

\* the message contains the word at some offset, whatever the case of its letters
ContainsFolded(message, word) ==
  \E off \in 0 .. (Len(message) - Len(word)) :
    \A j \in 1 .. Len(word) : SameFolded(message[off + j], word[j])

MentionsStorage(message) ==
  \/ ContainsFolded(message, <<"s", "t", "o", "r", "a", "g", "e">>)
  \/ ContainsFolded(message, <<"s", "p", "a", "c", "e">>)
  \/ ContainsFolded(message, <<"d", "i", "s", "k", " ", "f", "u", "l", "l">>)

\* a call of generateAudioFile whose arguments passed the checks has returned
Generated ==
  /\ op.name = "generateAudioFile"
  /\ Len(op.arg.timings) > 0 /\ op.arg.speed >= 5 /\ op.arg.speed <= 20

C22_StorageFullIsGeneric ==
  (Generated /\ op.arg.write = RejectedWith(StorageFull))
    => op.err = "Audio file generation failed"

\* DataView.getUint32 at a byte offset, little-endian
ReadU32LE(bytes, off) ==
  bytes[off + 1] + 256 * bytes[off + 2] + 65536 * bytes[off + 3]
    + 16777216 * bytes[off + 4]

\* C23: for every valid event sequence and speed the WAV data is 44 + 2 *
\* totalSamples bytes long, totalSamples = floor(totalDurationMs / 1000 * 44100),
\* and its header carries ChunkSize = 36 + 2 * totalSamples at offset 4 and
\* Subchunk2Size = 2 * totalSamples at offset 40.
C23_WavLayout ==
  (Generated /\ op.arg.speed \in {5, 10, 20})
    => LET totalSamples ==
             (441 * SumDurations(op.arg.timings, Len(op.arg.timings))) \div op.arg.speed
       IN /\ byteLength(op.wav) = 44 + 2 * totalSamples
          /\ Len(op.wav.header) = 44
          /\ ReadU32LE(op.wav.header, 4) = 36 + 2 * totalSamples
          /\ ReadU32LE(op.wav.header, 40) = 2 * totalSamples

\* the file of dit, gap, dah at speed 0.5: 441 samples, of which the loop wrote
\* 440, the last of them a tone sample
C23_Witness ==
  /\ Generated /\ op.arg.speed = 5
  /\ Len(op.wav.samples) = 441
  /\ op.wav.samples[440] = "tone"
  /\ op.wav.samples[441] = "zero"
  /\ byteLength(op.wav) = 926

\* the number of time units of each kind of event
UnitsOf(type) ==
  CASE type = "dit" -> 1
    [] type = "dah" -> 3
    [] type = "symbolGap" -> 1
    [] type = "letterGap" -> 3
    [] type = "wordGap" -> 7

Event(type, u) == [type |-> type, duration |-> UnitsOf(type) * u]

\* what the reference compiler emits for the character at position p of m
Emitted(m, p, u) ==
  LET next == IF p < Len(m) THEN m[p + 1] ELSE "none"
      prev == IF p > 1 THEN m[p - 1] ELSE "none"
      gap == IF next \in {".", "-"} THEN <<Event("symbolGap", u)>> ELSE <<>>
  IN CASE m[p] = "." -> <<Event("dit", u)>> \o gap
       [] m[p] = "-" -> <<Event("dah", u)>> \o gap
       [] m[p] = " " -> IF next = "/" \/ prev = "/" THEN <<>>
                        ELSE <<Event("letterGap", u)>>
       [] m[p] = "/" -> <<Event("wordGap", u)>>

RECURSIVE EmittedUpTo(_, _, _)
EmittedUpTo(m, p, u) ==
  IF p = 0 THEN <<>> ELSE EmittedUpTo(m, p - 1, u) \o Emitted(m, p, u)

Reference(m, u) ==
  IF \E p \in DOMAIN m : m[p] # " " THEN EmittedUpTo(m, Len(m), u) ELSE <<>>

Compiled == op.name = "morseToTiming"

\* C24: for every string over '.', '-', ' ' and '/', morseToTiming equals the
\* left-to-right reference compiler: a dit for '.', a dah for '-', each followed
\* by a symbolGap exactly when the next character is a symbol; a letterGap for a
\* space unless the next or the previous character is '/'; a wordGap for '/';
\* the empty sequence for an empty or blank string.
C24_MatchesReference ==
  Compiled => output.timings = Reference(input.chars, input.timeUnit)

\* "- / ." compiled at 120 ms: dah, wordGap, dit
C24_Witness ==
  /\ Compiled
  /\ input.chars = <<"-", " ", "/", " ", ".">> /\ input.timeUnit = 120
  /\ output.timings = << [type |-> "dah", duration |-> 360],
                         [type |-> "wordGap", duration |-> 840],
                         [type |-> "dit", duration |-> 120] >>

\* C25: every event compiled with time unit u lasts the fixed multiple of u of
\* its kind (dit 1, dah 3, symbolGap 1, letterGap 3, wordGap 7), which is
\* positive; compiling the same string with 2u gives the same kinds in the same
\* order with every duration doubled.
C25_DurationsScale ==
  Compiled =>
    LET timings == output.timings
        doubled == morseToTiming(input.chars, 2 * input.timeUnit)
    IN /\ \A i \in DOMAIN timings :
            /\ timings[i].duration = UnitsOf(timings[i].type) * input.timeUnit
            /\ timings[i].duration > 0
       /\ Len(doubled) = Len(timings)
       /\ \A i \in DOMAIN timings :
            /\ doubled[i].type = timings[i].type
            /\ doubled[i].duration = 2 * timings[i].duration

\* "- ./." compiled at 2 ms: dah 6, letterGap 6, dit 2, wordGap 14, dit 2
C25_Witness ==
  /\ Compiled
  /\ input.chars = <<"-", " ", ".", "/", ".">> /\ input.timeUnit = 2
  /\ Len(output.timings) = 5
  /\ output.timings[2] = [type |-> "letterGap", duration |-> 6]
  /\ output.timings[4] = [type |-> "wordGap", duration |-> 14]

\* the positions of the signal-on events of a sequence, and of the symbols of a
\* string
SignalsOf(timings) ==
  {i \in DOMAIN timings : timings[i].type = "dit" \/ timings[i].type = "dah"}
SymbolsOf(m) == {p \in DOMAIN m : m[p] = "." \/ m[p] = "-"}

\* pairs of consecutive members of a set of positions
ConsecutiveIn(S) ==
  {pr \in S \X S : pr[1] < pr[2] /\ ~(\E x \in S : pr[1] < x /\ x < pr[2])}

\* C26 as stated: in the sequence compiled from any string over '.', '-', ' '
\* and '/', two consecutive signal-on events are separated by exactly one gap
\* event, never by two or more.
C26_OneGapAlways ==
  Compiled =>
    \A pr \in ConsecutiveIn(SignalsOf(output.timings)) : pr[2] = pr[1] + 2

\* the k-th member of a set of positions, in increasing order
Nth(S, k) == CHOOSE x \in S : Cardinality({y \in S : y <= x}) = k

Separators ==
  { <<" ">>, <<"/">>, <<" ", "/">>, <<"/", " ">>, <<" ", "/", " ">> }

\* C26: two consecutive signal-on events are separated by exactly one gap event
\* when their symbols are adjacent in the string (a symbolGap), one space apart
\* (a letterGap) or separated by '/', ' /', '/ ' or ' / ' (a wordGap); a longer
\* run of spaces and slashes between the symbols gives two or more gap events.
C26_OneGapPerSeparator ==
  Compiled =>
    LET m == input.chars
        timings == output.timings
    IN /\ Cardinality(SignalsOf(timings)) = Cardinality(SymbolsOf(m))
       /\ \A k \in 1 .. (Cardinality(SymbolsOf(m)) - 1) :
            LET run == SubSeq(m, Nth(SymbolsOf(m), k) + 1, Nth(SymbolsOf(m), k + 1) - 1)
                a == Nth(SignalsOf(timings), k)
                b == Nth(SignalsOf(timings), k + 1)
            IN /\ run = <<>> => (b = a + 2 /\ timings[a + 1].type = "symbolGap")
               /\ run = <<" ">> => (b = a + 2 /\ timings[a + 1].type = "letterGap")
               /\ (run \in Separators /\ run # <<" ">>)
                    => (b = a + 2 /\ timings[a + 1].type = "wordGap")
               /\ (run # <<>> /\ run \notin Separators) => b > a + 2

\* ". / -" compiled: one wordGap between the dit and the dah
C26_Witness ==
  /\ Compiled
  /\ input.chars = <<".", " ", "/", " ", "-">> /\ input.timeUnit = 1
  /\ output.timings = << [type |-> "dit", duration |-> 1],
                         [type |-> "wordGap", duration |-> 7],
                         [type |-> "dah", duration |-> 3] >>

\* C27: morseToTiming(textToMorse(text)) is a sequence in which signal-on events
\* and gap events alternate, which begins and ends with a signal-on event when
\* it is not empty, and which has as many signal-on events as textToMorse(text)
\* has '.' and '-' characters.
C27_RoundTripAlternates ==
  op.name = "morseToTimingOfText" =>
    LET timings == output.timings
    IN /\ \A i \in DOMAIN timings : (i \in SignalsOf(timings)) <=> (i % 2 = 1)
       /\ Len(timings) > 0 => Len(timings) % 2 = 1
       /\ Cardinality(SignalsOf(timings)) = Cardinality(SymbolsOf(output.morse))

\* "A #e" is rendered ".- / ." and compiled to dit, symbolGap, dah, wordGap, dit
C27_Witness ==
  /\ op.name = "morseToTimingOfText"
  /\ input.chars = <<"A", " ", "#", "e">>
  /\ output.morse = <<".", "-", " ", "/", " ", ".">>
  /\ Len(output.timings) = 5 /\ output.timings[4].type = "wordGap"

\* the text scanned once, every space opening a new word: the codes of a word
\* joined by one space, the words, empty ones too, joined by " / "
RECURSIVE RenderAll(_, _, _, _)
RenderAll(upper, i, out, inWord) ==
  IF i > Len(upper) THEN out
  ELSE IF upper[i] = " " THEN RenderAll(upper, i + 1, out \o <<" ", "/", " ">>, FALSE)
  ELSE IF codeOf(upper[i]) = <<>> THEN RenderAll(upper, i + 1, out, inWord)
  ELSE RenderAll(upper, i + 1,
                 out \o (IF inWord THEN <<" ">> ELSE <<>>) \o codeOf(upper[i]), TRUE)

\* the same scan, a word being joined only once it has a code
RECURSIVE RenderKept(_, _, _, _)
RenderKept(upper, i, out, inWord) ==
  IF i > Len(upper) THEN out
  ELSE IF upper[i] = " " THEN RenderKept(upper, i + 1, out, FALSE)
  ELSE IF codeOf(upper[i]) = <<>> THEN RenderKept(upper, i + 1, out, inWord)
  ELSE RenderKept(upper, i + 1,
                  out \o (IF out = <<>> THEN <<>>
                          ELSE IF inWord THEN <<" ">> ELSE <<" ", "/", " ">>)
                      \o codeOf(upper[i]), TRUE)

HasCode(ch) == ch = " " \/ codeOf(Recase(ch, LowerCase, UpperCase)) # <<>>
Blank(text) == \A i \in DOMAIN text : text[i] = " "

\* C28 as stated: textToMorse upper-cases the text, splits it on single spaces,
\* joins the codes of each word with one space, dropping the characters without
\* a code, and joins the words with ' / '; the result is that of the text with
\* its unsupported characters removed, and '' for an empty or blank text.
C28_JoinsEveryWord ==
  op.name = "textToMorse" =>
    /\ output.morse = IF Blank(input.chars) THEN <<>>
                      ELSE RenderAll(toUpperCase(input.chars), 1, <<>>, FALSE)
    /\ output.morse = textToMorse(SelectSeq(input.chars, HasCode))

\* C28: as above, except that a word left without any code (an empty word
\* between two spaces, a word of unsupported characters only) is dropped before
\* the words are joined with ' / '.
C28_JoinsCodedWords ==
  op.name = "textToMorse" =>
    /\ output.morse = IF Blank(input.chars) THEN <<>>
                      ELSE RenderKept(toUpperCase(input.chars), 1, <<>>, FALSE)
    /\ output.morse = textToMorse(SelectSeq(input.chars, HasCode))

\* "A  e", with two spaces, is rendered ".- / ."
C28_Witness ==
  /\ op.name = "textToMorse"
  /\ input.chars = <<"A", " ", " ", "e">>
  /\ output.morse = <<".", "-", " ", "/", " ", ".">>

\* the position at which a character first occurs
FirstAt(str, ch) == CHOOSE i \in DOMAIN str : str[i] = ch /\ \A j \in 1 .. (i - 1) : str[j] # ch

\* C29: validateText returns in unsupportedChars every distinct character of the
\* upper-cased text that is not a space and has no code, each once, in order of
\* first occurrence; isValid is true exactly when that list is empty.
C29_ListsUnsupported ==
  op.name = "validateText" =>
    LET upper == toUpperCase(input.chars)
        bad == {upper[i] : i \in {j \in DOMAIN upper : upper[j] # " " /\ codeOf(upper[j]) = <<>>}}
        list == output.unsupportedChars
    IN /\ {list[k] : k \in DOMAIN list} = bad
       /\ Len(list) = Cardinality(bad)
       /\ \A a, b \in DOMAIN list : a < b => FirstAt(upper, list[a]) < FirstAt(upper, list[b])
       /\ output.isValid <=> (Len(list) = 0)

\* "%#%e" has the unsupported characters '%' and '#', first seen in that order
C29_Witness ==
  /\ op.name = "validateText"
  /\ input.chars = <<"%", "#", "%", "e">>
  /\ output.unsupportedChars = <<"%", "#">> /\ ~output.isValid

\* C30: during a transmission the events are visited in sequence order, one per
\* scheduled step: the first step is for event 0 and the step a timer runs is
\* for the event after the one the timer was set for; the step for event i sets
\* the torch state ON exactly when event i is a dit or a dah, OFF for a gap, and
\* schedules the next step event[i].duration + 10 ms later.
C30_StepsInOrder ==
  [][ /\ (op'.name = "timerFired" /\ op'.began = -1)
        => \/ ~isTransmitting
           \/ op'.err # "" \/ op'.onError # 0
           \/ \E o \in (DOMAIN walks) \ (DOMAIN walks') :
                 walks[o].index + 1 >= Len(walks[o].timings)
      /\ (op'.name \in {"permissionDone", "timerFired"} /\ op'.began # -1)
        => LET new == (DOMAIN walks') \ (DOMAIN walks)
               old == (DOMAIN walks) \ (DOMAIN walks')
           IN /\ Cardinality(new) = 1
              /\ \A n \in new :
                   LET w == walks'[n]
                       event == w.timings[op'.began + 1]
                   IN /\ w.index = op'.began
                      /\ w.left = event.duration + 10
                      /\ torchEnabled' = (event.type \in {"dit", "dah"})
                      /\ op'.torch = IF onTorchChangeCallback
                                     THEN <<event.type \in {"dit", "dah"}>> ELSE <<>>
                      /\ op'.name = "permissionDone"
                           => /\ op'.began = 0 /\ old = {}
                              /\ [tx |-> w.tx, timings |-> w.timings] \in permits
                      /\ op'.name = "timerFired"
                           => /\ Cardinality(old) = 1
                              /\ \A o \in old :
                                   /\ walks[o].left = 0
                                   /\ op'.began = walks[o].index + 1
                                   /\ w.tx = walks[o].tx /\ w.timings = walks[o].timings ]_vars

\* the step for the dah of dit, gap, dah has run: the torch is on and the next
\* step is due in 13 ms
C30_Witness ==
  /\ op.name = "timerFired" /\ op.began = 2 /\ torchEnabled /\ op.torch = <<TRUE>>
  /\ \E id \in DOMAIN walks : walks[id].index = 2 /\ walks[id].left = 13

\* C31: when a tone fails to play during live playback the failure is
\* swallowed: the transport stays Playing, the session keeps its callbacks and
\* its sampler, no error is thrown, and the emission goes on with the next event
\* of the sequence until the end is reached and onComplete is invoked.
C31_ToneFailureSwallowed ==
  /\ [][ op'.name = "createFail"
           => /\ Playing /\ playbackState' = playbackState
              /\ onProgressCallback' = onProgressCallback
              /\ onCompleteCallback' = onCompleteCallback
              /\ progressInterval' = progressInterval /\ intervals' = intervals
              /\ op'.err = "" /\ op'.complete = 0
              /\ playbackTimeout' \in DOMAIN chains
              /\ chains'[playbackTimeout'].stage = "timeout"
              /\ chains'[playbackTimeout'].index = playbackState.currentIndex ]_vars
  /\ \A i \in 0 .. 2 :
       ( /\ op.name = "createFail" /\ chains[playbackTimeout].index = i
         /\ i + 1 < Len(currentTimings) )
         ~> (op.name = "nextStep" /\ op.began = i + 1)
  /\ \A s \in 1 .. MaxSess :
       (op.name = "createFail" /\ chains[playbackTimeout].sess = s)
         ~> (s \in DOMAIN completed /\ completed[s] = 1 /\ Stopped)

\* the tone of the first event of dit, gap, dah failed to play
C31_Witness ==
  /\ op.name = "createFail" /\ Playing
  /\ currentTimings = <<Dit, SymbolGap, Dah>>
  /\ chains[playbackTimeout].index = 0 /\ chains[playbackTimeout].stage = "timeout"

\* floor(duration / speed / 1000 * 44100) for the first n events together, each
\* event rounded down on its own; durations in ms, speeds in tenths
RECURSIVE SamplesUpTo(_, _, _)
SamplesUpTo(timings, speed, n) ==
  IF n = 0 THEN 0
  ELSE SamplesUpTo(timings, speed, n - 1) + (441 * timings[n].duration) \div speed

\* C32: while generateAudioFile fills its buffer the write index never exceeds
\* totalSamples: event n occupies the positions after those of the events
\* before it, floor(duration / speed / 1000 * 44100) of them or as many as are
\* left, with tone samples for a dit or dah and zeros for a gap, and the
\* positions no event writes are zero.
C32_BufferFilledInBounds ==
  (Generated /\ op.arg.speed \in {5, 10, 20})
    => LET timings == op.arg.timings
           speed == op.arg.speed
           totalSamples == (441 * SumDurations(timings, Len(timings))) \div speed
           samples == op.wav.samples
       IN /\ Len(samples) = totalSamples
          /\ \A n \in DOMAIN timings :
               \A j \in (SamplesUpTo(timings, speed, n - 1) + 1)
                          .. Min(SamplesUpTo(timings, speed, n), totalSamples) :
                 samples[j] = IF timings[n].type \in {"dit", "dah"} THEN "tone" ELSE "zero"
          /\ \A j \in (SamplesUpTo(timings, speed, Len(timings)) + 1) .. totalSamples :
               samples[j] = "zero"

\* dit, gap, dah at speed 0.5: 88 tone samples, 88 zeros, 264 tone samples and
\* one position that no event wrote
C32_Witness ==
  /\ Generated /\ op.arg.speed = 5 /\ op.arg.timings = <<Dit, SymbolGap, Dah>>
  /\ op.wav.samples[88] = "tone" /\ op.wav.samples[89] = "zero"
  /\ op.wav.samples[176] = "zero" /\ op.wav.samples[177] = "tone"
  /\ Len(op.wav.samples) = 441

\* C33: when the application state changes from active to inactive or
\* background, releaseResources is invoked on the playback engine and on the
\* transmission scheduler, after which isPlaying() is false,
\* isTransmittingNow() is false and the torch is off.
C33_BackgroundReleases ==
  [][ (appState = "active" /\ op'.name = "appStateChange")
        => /\ ~isPlaying'
           /\ ~isTransmitting'
           /\ ~torchEnabled' ]_vars

\* a transmitMorse call was rejected because a transmission is in progress
RejectedTransmit == op.name = "transmitMorse" /\ op.err = "Transmission already in progress"

\* C34: a transmitMorse call rejected because a transmission is in progress
\* leaves that transmission unaffected: isTransmittingNow() stays true, the
\* pending step and the torch are untouched, and the step that follows the
\* rejection signals the next event of the walk, onComplete firing only after
\* the last one.
C34_RejectionLeavesTransmission ==
  [][ /\ RejectedTransmit'
        => /\ isTransmitting' = isTransmitting
           /\ torchEnabled' = torchEnabled
           /\ walks' = walks /\ transmissionTimeouts' = transmissionTimeouts
      /\ \A id \in DOMAIN walks :
           ( /\ RejectedTransmit
             /\ \E thrown1, thrown2 \in BOOLEAN : TimerFired(id, thrown1, thrown2)
             /\ op'.err = "" )
           => IF walks[id].index + 1 < Len(walks[id].timings)
              THEN op'.began = walks[id].index + 1 /\ op'.complete = 0
              ELSE op'.complete = walks[id].tx ]_vars

\* the chain belongs to a session that was stopped or superseded, and a later
\* session is current
Stale(c) ==
  /\ c \in DOMAIN chains
  /\ onCompleteCallback # 0 /\ chains[c].sess # onCompleteCallback

\* a step of the chain: an asynchronous completion or a timer of it
StepOf(c) ==
  CreateDone(c) \/ CreateFail(c) \/ WaitDone(c) \/ ReleaseDone(c) \/ NextStep(c)

\* C35: a step of a playback session that was stopped, or superseded by a
\* later playMorse, never acts on the later session: it changes neither the
\* later session's currentIndex nor its accumulated elapsed time, emits no
\* event of the old sequence, and triggers neither the later session's
\* onComplete nor its teardown.
C35_StaleStepInert ==
  [][ \A c \in DOMAIN chains :
        (Stale(c) /\ StepOf(c))
          => /\ playbackState'.currentIndex = playbackState.currentIndex
             /\ accumulatedDuration' = accumulatedDuration
             /\ op'.began = -1 /\ ~op'.tone
             /\ op'.complete = 0
             /\ playbackState'.isPlaying = playbackState.isPlaying
             /\ onCompleteCallback' = onCompleteCallback ]_vars

\* C36: across any interleaving of transmitMorse and stopTransmission calls,
\* two transmitMorse calls made before the first has passed its permission
\* check included, at most one chain of scheduled transmission steps is pending
\* at any time.
C36_OnePendingWalk == Cardinality(DOMAIN walks) <= 1

\* C37: under every sequence of playMorse, pausePlayback, resumePlayback,
\* seekTo and stopPlayback calls at most one progress-sampling interval timer
\* exists at any time, and none exists while the transport is Stopped.
C37_OneSampler ==
  /\ Cardinality(intervals) <= 1
  /\ Stopped => intervals = {}

\* C38: in every state between calls and timer callbacks of the transmission
\* scheduler, isTransmittingNow() false implies getTorchEnabled() false.
C38_TorchNeedsTransmission == ~isTransmitting => ~torchEnabled

\* the whole state of the playback engine: transport, position, sequence and
\* speed, callbacks, timers and pending continuations
EngineState ==
  << playbackState, accumulatedDuration, currentItemStartTime, currentTimings,
     currentSpeed, onProgressCallback, onCompleteCallback, progressInterval,
     intervals, playbackTimeout, sound, chains, inits >>

\* C39: a playMorse call rejected for an empty sequence or a speed out of
\* range, and a seekTo call rejected for a position out of range, leave the
\* whole engine state as it was, also when a session is Playing or Paused.
C39_RejectionChangesNothing ==
  [][ op'.name \in {"playMorseRejected", "seekToRejected"}
        => /\ op'.err # ""
           /\ EngineState' = EngineState
           /\ op'.began = -1 /\ ~op'.tone /\ op'.prog = NoProgress
           /\ op'.complete = 0 ]_vars

\* a playMorse call was rejected while a session was Paused with an event of
\* it still in flight
C39_Witness ==
  /\ op.name = "playMorseRejected" /\ Paused
  /\ InFlight # {} /\ progressInterval # 0 /\ onCompleteCallback # 0

\* the transmission started by call tx has a step pending
Walking(tx) == \E id \in DOMAIN walks : walks[id].tx = tx

\* C40: a transmission of a non-empty sequence that is neither stopped nor
\* fails eventually ends: after the delay of its last event the torch is
\* switched off, isTransmittingNow() becomes false and onComplete is invoked
\* exactly once (it is invoked, by the step that follows the last event and by
\* no earlier one, and no step of the transmission is left to invoke it again).
C40_TransmissionEnds ==
  /\ \A tx \in 1 .. MaxCalls :
       Walking(tx) ~> (op.complete = tx /\ ~torchEnabled /\ ~isTransmitting)
  /\ [][ \A id \in DOMAIN walks, tx \in 1 .. MaxCalls :
           (walks[id].tx = tx /\ TimerFired(id, FALSE, FALSE))
             => IF walks[id].index + 1 < Len(walks[id].timings)
                THEN op'.complete = 0 /\ Walking(tx)'
                ELSE /\ op'.complete = tx
                     /\ ~torchEnabled' /\ ~isTransmitting'
                     /\ ~Walking(tx)' ]_vars

====
